---------------------------- MODULE Spec2Model ----------------------------
(***************************************************************************)
(* Bug Surgeon (src/debug_orchestrator.py): the analysis orchestration of  *)
(* class BugSurgeon.  A Python string is modelled as a sequence of tokens  *)
(* (a token is a word, a label such as "FILE:", a tag such as "<analysis>",*)
(* a blank " ", a period "." or a newline "\n"), so that split, strip,     *)
(* startswith, slicing and the regular-expression searches of the code are *)
(* computed on the text and not assumed.                                   *)
(***************************************************************************)
EXTENDS Integers, Sequences, FiniteSets, TLC

(***************************************************************************)
(* Bounds of the model.                                                    *)
(***************************************************************************)
MaxIterations == 3

(***************************************************************************)
(* Python string primitives on token sequences.                            *)
(***************************************************************************)
NL == "\n"
SP == " "

Min(a, b) == IF a < b THEN a ELSE b
Max(a, b) == IF a > b THEN a ELSE b

\* s[lo:hi] taken with the end one short.
PySlice_EndShort(s, lo, hi) ==
  LET l == IF lo < 0 THEN Max(Len(s) + lo, 0) ELSE Min(lo, Len(s))
      h == IF hi - 1 < 0 THEN Max(Len(s) + hi - 1, 0) ELSE Min(hi - 1, Len(s))
  IN  IF h <= l THEN <<>> ELSE SubSeq(s, l + 1, h)


\* s[lo:hi] of Python for 0-based lo, hi (negative values count from the end).
PyBound(i, n) == IF i < 0 THEN Max(n + i, 0) ELSE Min(i, n)
PySlice(s, lo, hi) ==
  LET l == PyBound(lo, Len(s))
      h == PyBound(hi, Len(s))
  IN  IF h <= l THEN <<>> ELSE SubSeq(s, l + 1, h)

\* str.strip(): blanks and newlines removed at both ends.
IsBlank(t) == t \in {SP, NL}
RECURSIVE LStrip(_)
LStrip(s) == IF s # <<>> /\ IsBlank(Head(s)) THEN LStrip(Tail(s)) ELSE s
RECURSIVE RStrip(_)
RStrip(s) ==
  IF s # <<>> /\ IsBlank(s[Len(s)]) THEN RStrip(SubSeq(s, 1, Len(s) - 1)) ELSE s
Strip(s) == RStrip(LStrip(s))

\* str.split(sep): the pieces between the occurrences of sep (n seps, n+1 pieces).
RECURSIVE SplitOn(_, _)
SplitOn(s, sep) ==
  IF \E i \in 1..Len(s) : s[i] = sep
  THEN LET k == CHOOSE i \in 1..Len(s) : s[i] = sep /\ \A j \in 1..(i - 1) : s[j] # sep
       IN  <<SubSeq(s, 1, k - 1)>> \o SplitOn(SubSeq(s, k + 1, Len(s)), sep)
  ELSE <<s>>

\* sep.join(parts)
RECURSIVE JoinWith(_, _)
JoinWith(parts, sep) ==
  IF parts = <<>> THEN <<>>
  ELSE IF Len(parts) = 1 THEN parts[1]
  ELSE parts[1] \o <<sep>> \o JoinWith(Tail(parts), sep)

\* line.startswith(label) for a label that is one token.
StartsWith(line, label) == line # <<>> /\ line[1] = label

\* line.split(':', 1)[1] without the strip().
AfterColon_NoStrip(line) == Tail(line)

\* line.split(':', 1)[1].strip() for a line that starts with a label token
\* (the label's colon is the first colon of the line).
AfterColon(line) == Strip(Tail(line))

\* The integers a reply can spell.
IntTokens == (0 - 2)..12
\* ParseInt giving 0 for a text that is no integer.
ParseInt_ZeroOnError(s) ==
  LET t == Strip(s)
  IN  IF Len(t) = 1 /\ \E n \in IntTokens : ToString(n) = t[1]
      THEN <<CHOOSE n \in IntTokens : ToString(n) = t[1]>>
      ELSE <<0>>


\* int(s.strip()): <<n>> when the text is one integer token, <<>> on ValueError.
ParseInt(s) ==
  LET t == Strip(s)
  IN  IF Len(t) = 1 /\ \E n \in IntTokens : ToString(n) = t[1]
      THEN <<CHOOSE n \in IntTokens : ToString(n) = t[1]>>
      ELSE <<>>

\* Truthiness of an Optional[int]: None and 0 are false.
Truthy(opt) == opt # <<>> /\ opt[1] # 0

(***************************************************************************)
(* ToolRequest and parse_tool_requests.                                    *)
(***************************************************************************)
ToolRequest(tool, file_path, start_line, end_line) ==
  [tool |-> tool, file_path |-> file_path,
   start_line |-> start_line, end_line |-> end_line]

\* The inner for loop: lines j..hi update the three optional fields in turn.
RECURSIVE ScanFields(_, _, _, _)
ScanFields(lines, j, hi, acc) ==
  IF j > hi THEN acc
  ELSE LET next_line == Strip(lines[j])
           upd ==
             IF StartsWith(next_line, "FILE:")
             THEN [acc EXCEPT !.file_path = AfterColon(next_line)]
             ELSE IF StartsWith(next_line, "START_LINE:")
             THEN IF ParseInt(Tail(next_line)) # <<>>
                  THEN [acc EXCEPT !.start_line = ParseInt(Tail(next_line))]
                  ELSE acc
             ELSE IF StartsWith(next_line, "END_LINE:")
             THEN IF ParseInt(Tail(next_line)) # <<>>
                  THEN [acc EXCEPT !.end_line = ParseInt(Tail(next_line))]
                  ELSE acc
             ELSE acc
       IN  ScanFields(lines, j + 1, hi, upd)

\* The number of lines inspected after a marker, two short.
FieldWindow_Short == 1 + 1


\* The number of lines inspected after a marker, one more.
FieldWindow_Wide == 4 + 1


\* The number of lines after a marker that are inspected for its fields.
FieldWindow == 4

RECURSIVE ParseFrom(_, _)
ParseFrom(lines, i) ==
  IF i > Len(lines) THEN <<>>
  ELSE LET line == Strip(lines[i])
           req == ScanFields(lines, i + 1, Min(i + FieldWindow, Len(lines)),
                             ToolRequest(AfterColon(line), <<>>, <<>>, <<>>))
       IN  (IF StartsWith(line, "TOOL_REQUEST:") /\ req.file_path # <<>>
            THEN <<req>> ELSE <<>>)
           \o ParseFrom(lines, i + 1)

parse_tool_requests(response_text) == ParseFrom(SplitOn(response_text, NL), 1)

(***************************************************************************)
(* Character counts.  A token counts as one character, except a wide word: *)
(* Wide(k) stands for a run of k letters, so that a reply of a few tokens  *)
(* is longer than the limits at which the code cuts a text.                *)
(***************************************************************************)
WideLen == 100
Wide(k) == "W" \o ToString(k)
WideWords == {Wide(k) : k \in 1..WideLen}
WideWord == Wide(WideLen)
TokLen(t) == IF t \in WideWords THEN CHOOSE k \in 1..WideLen : Wide(k) = t ELSE 1

RECURSIVE StrLen(_)
StrLen(s) == IF s = <<>> THEN 0 ELSE TokLen(Head(s)) + StrLen(Tail(s))

\* s[:n]: the first n characters; a cut inside a wide word keeps its head.
RECURSIVE Prefix(_, _)
Prefix(s, n) ==
  IF s = <<>> \/ n <= 0 THEN <<>>
  ELSE IF TokLen(Head(s)) > n THEN <<Wide(n)>>
  ELSE <<Head(s)>> \o Prefix(Tail(s), n - TokLen(Head(s)))

Ellipsis == <<".", ".", ".">>

(***************************************************************************)
(* Regular-expression searches  <tag>(.*?)</tag>  with re.DOTALL.          *)
(***************************************************************************)
\* re.search: <<body>> of the leftmost, shortest match, <<>> when none.
SearchSpan(text, open, close) ==
  LET starts == {i \in 1..Len(text) :
                   text[i] = open /\ \E j \in (i + 1)..Len(text) : text[j] = close}
  IN  IF starts = {} THEN <<>>
      ELSE LET i == CHOOSE x \in starts : \A y \in starts : x <= y
               j == CHOOSE x \in (i + 1)..Len(text) :
                      text[x] = close /\ \A y \in (i + 1)..(x - 1) : text[y] # close
           IN  <<SubSeq(text, i + 1, j - 1)>>

\* re.findall stopping after its first match.
FindAllSpans_FirstOnly(text, open, close) == SearchSpan(text, open, close)

\* re.findall: the bodies of the non-overlapping matches, left to right.
RECURSIVE FindAllSpans(_, _, _)
FindAllSpans(text, open, close) ==
  LET starts == {i \in 1..Len(text) :
                   text[i] = open /\ \E j \in (i + 1)..Len(text) : text[j] = close}
  IN  IF starts = {} THEN <<>>
      ELSE LET i == CHOOSE x \in starts : \A y \in starts : x <= y
               j == CHOOSE x \in (i + 1)..Len(text) :
                      text[x] = close /\ \A y \in (i + 1)..(x - 1) : text[y] # close
           IN  <<SubSeq(text, i + 1, j - 1)>>
               \o FindAllSpans(SubSeq(text, j + 1, Len(text)), open, close)

StripEach(spans) == [k \in 1..Len(spans) |-> Strip(spans[k])]

(***************************************************************************)
(* BugAnalysis, _create_fallback_analysis and extract_analysis.            *)
(***************************************************************************)
BugAnalysis(root_cause, explanation, file_changes, reasoning_trace, confidence) ==
  [root_cause |-> root_cause, explanation |-> explanation,
   file_changes |-> file_changes, reasoning_trace |-> reasoning_trace,
   confidence |-> confidence]

RootCauseLimit == 200
ExplanationLimit == 500

\* _create_fallback_analysis leaving file_changes empty.
_create_fallback_analysis_NoChanges(response_text) ==
  BugAnalysis(SplitOn(response_text, ".")[1], response_text, <<>>,
              StripEach(FindAllSpans(response_text, "<thinking>", "</thinking>")),
              <<"MEDIUM">>)

_create_fallback_analysis(response_text) ==
  LET reasoning_trace == StripEach(FindAllSpans(response_text, "<thinking>", "</thinking>"))
      sentences == SplitOn(response_text, ".")
      root_cause == sentences[1]
  IN  BugAnalysis(
        IF StrLen(root_cause) > RootCauseLimit
        THEN Prefix(root_cause, RootCauseLimit) \o Ellipsis ELSE root_cause,
        IF StrLen(response_text) > ExplanationLimit
        THEN Prefix(response_text, ExplanationLimit) \o Ellipsis ELSE response_text,
        "analysis.md" :> response_text,
        reasoning_trace,
        <<"MEDIUM">>)

\* The confidence taken to be LOW when no line gives one.
DefaultConfidence_Low == <<"LOW">>

\* confidence before the lines of the <analysis> body are read.
DefaultConfidence == <<"MEDIUM">>

\* ScanAnalysis reading the lines from the last to the first, so that the
\* first line with a label gives the value.
RECURSIVE ScanAnalysis_FirstWins(_, _, _)
ScanAnalysis_FirstWins(lines, k, acc) ==
  IF k > Len(lines) THEN acc
  ELSE LET line == Strip(lines[Len(lines) + 1 - k])
           upd ==
             IF StartsWith(line, "ROOT_CAUSE:")
             THEN [acc EXCEPT !.root_cause = AfterColon(line)]
             ELSE IF StartsWith(line, "EXPLANATION:")
             THEN [acc EXCEPT !.explanation = AfterColon(line)]
             ELSE IF StartsWith(line, "CONFIDENCE:")
             THEN [acc EXCEPT !.confidence = AfterColon(line)]
             ELSE acc
       IN  ScanAnalysis_FirstWins(lines, k + 1, upd)


\* The for loop over the lines of the <analysis> body: each labelled line
\* assigns its field, so a later line overwrites an earlier one.
RECURSIVE ScanAnalysis(_, _, _)
ScanAnalysis(lines, k, acc) ==
  IF k > Len(lines) THEN acc
  ELSE LET line == Strip(lines[k])
           upd ==
             IF StartsWith(line, "ROOT_CAUSE:")
             THEN [acc EXCEPT !.root_cause = AfterColon(line)]
             ELSE IF StartsWith(line, "EXPLANATION:")
             THEN [acc EXCEPT !.explanation = AfterColon(line)]
             ELSE IF StartsWith(line, "CONFIDENCE:")
             THEN [acc EXCEPT !.confidence = AfterColon(line)]
             ELSE acc
       IN  ScanAnalysis(lines, k + 1, upd)

extract_analysis(response_text) ==
  LET analysis_match == SearchSpan(response_text, "<analysis>", "</analysis>")
  IN  IF analysis_match = <<>> THEN _create_fallback_analysis(response_text)
      ELSE LET f == ScanAnalysis(SplitOn(analysis_match[1], NL), 1,
                      [root_cause |-> <<>>, explanation |-> <<>>,
                       confidence |-> DefaultConfidence])
               solution_match == SearchSpan(response_text, "<solution>", "</solution>")
               solution_text == IF solution_match # <<>> THEN solution_match[1] ELSE <<>>
               reasoning_trace ==
                 StripEach(FindAllSpans(response_text, "<thinking>", "</thinking>"))
           IN  BugAnalysis(
                 IF f.root_cause # <<>> THEN f.root_cause
                 ELSE <<"Analysis", SP, "completed">>,
                 IF f.explanation # <<>> THEN f.explanation
                 ELSE Prefix(response_text, ExplanationLimit) \o Ellipsis,
                 "solution.md" :> solution_text,
                 reasoning_trace,
                 f.confidence)

(***************************************************************************)
(* The state of one BugSurgeon and of its analysis invocations.            *)
(***************************************************************************)
VARIABLES
  disk,             \* the file provider: what each known path holds
  pc,               \* where the invocation stands
  entry,            \* the method the caller invoked
  issue_description,\* argument of the invocation
  max_iterations,   \* argument of analyze_bug
  route,            \* the analysis paths entered, in order
  prompt,           \* analyze_bug_direct: comprehensive_prompt
  messages,         \* _analyze_bug_react: the conversation
  iteration,        \* _analyze_bug_react: iteration
  reasoning_trace,  \* _analyze_bug_react: reasoning_trace
  requested_files,  \* _analyze_bug_react: requested_files
  call_outcome,     \* the last model call: "none", "pending", "replied", "failed"
  response_text,    \* the reply last received
  outcome,          \* "pending", "analysis", "none" (None returned), "raised"
  result,           \* <<>> or <<the BugAnalysis returned>>
  model_calls,      \* calls of claude.messages.create in this invocation
  fetches,          \* calls of read_file_content in this invocation, in order
  parses,           \* calls of extract_analysis in this invocation
  unit_call,        \* the method a client applied on its own, or "none"
  unit_arg,         \* its arguments
  unit_ret,         \* what it returned
  earlier_files     \* the paths the earlier invocations of _analyze_bug_react fetched

vars == <<disk, pc, entry, issue_description, max_iterations, route, prompt,
          messages, iteration, reasoning_trace, requested_files, call_outcome,
          response_text,
          outcome, result, model_calls, fetches, parses,
          unit_call, unit_arg, unit_ret, earlier_files>>

\* The application of one method outside an analysis invocation.
unit == <<unit_call, unit_arg, unit_ret>>

(***************************************************************************)
(* The file provider.  A path is a string, that is a token sequence; the   *)
(* known paths are one token long.  LongName stands for a file name longer *)
(* than the file system allows: stat() on it fails with ENAMETOOLONG, an   *)
(* OSError that Path.exists() does not swallow.                            *)
(***************************************************************************)
Paths == {"a.py", "b.py"}
LongName == "long.py"
DiskKinds == {"present", "absent", "unreadable"}

DiskKind(file_path) ==
  IF Len(file_path) = 1 /\ file_path[1] \in Paths THEN disk[file_path[1]] ELSE "absent"

\* Path(file_path).exists(): "true", "false" or "raise".
PathExists(file_path) ==
  IF Len(file_path) = 1 /\ file_path[1] = LongName THEN "raise"
  ELSE IF DiskKind(file_path) = "absent" THEN "false" ELSE "true"

FileLineCount == 3
\* The text of a readable file: FileLineCount lines, joined by newlines.
FileText(file_path) ==
  JoinWith([k \in 1..FileLineCount |-> file_path \o <<"#", ToString(k)>>], NL)

ErrorSentinel == "Error reading file:"
NotFoundSentinel == "File not found:"
ErrorMessage == <<"Errno">>

Contains(text, tok) == \E i \in 1..Len(text) : text[i] = tok

\* read_file_content returning a whole file without its header line.
read_file_content_NoHeader(file_path, start_line, end_line) ==
  IF PathExists(file_path) = "raise" THEN <<ErrorSentinel, SP>> \o ErrorMessage
  ELSE IF PathExists(file_path) = "false" THEN <<NotFoundSentinel, SP>> \o file_path
  ELSE IF DiskKind(file_path) = "unreadable" THEN <<ErrorSentinel, SP>> \o ErrorMessage
  ELSE IF Truthy(start_line) \/ Truthy(end_line)
  THEN LET lines == SplitOn(FileText(file_path), NL)
           start == IF Truthy(start_line) THEN start_line[1] - 1 ELSE 0
           end == IF Truthy(end_line) THEN end_line[1] ELSE Len(lines)
       IN  <<"#", SP>> \o file_path
           \o <<SP, "lines", SP, ToString(start + 1), "-", ToString(end), NL>>
           \o JoinWith(PySlice(lines, start, end), NL)
  ELSE FileText(file_path)


read_file_content(file_path, start_line, end_line) ==
  IF PathExists(file_path) = "raise" THEN <<ErrorSentinel, SP>> \o ErrorMessage
  ELSE IF PathExists(file_path) = "false" THEN <<NotFoundSentinel, SP>> \o file_path
  ELSE IF DiskKind(file_path) = "unreadable" THEN <<ErrorSentinel, SP>> \o ErrorMessage
  ELSE LET content == FileText(file_path)
       IN  IF Truthy(start_line) \/ Truthy(end_line)
           THEN LET lines == SplitOn(content, NL)
                    start == IF Truthy(start_line) THEN start_line[1] - 1 ELSE 0
                    end == IF Truthy(end_line) THEN end_line[1] ELSE Len(lines)
                IN  <<"#", SP>> \o file_path
                    \o <<SP, "lines", SP, ToString(start + 1), "-", ToString(end), NL>>
                    \o JoinWith(PySlice(lines, start, end), NL)
           ELSE <<"#", SP>> \o file_path \o <<NL>> \o content

(***************************************************************************)
(* _extract_file_paths.  A path mention is one token; the three patterns   *)
(* are tried in turn over the whole text and their matches concatenated.   *)
(***************************************************************************)
IsPathToken(t) == t \in Paths \cup {LongName}

RECURSIVE MatchQuoted(_, _)
MatchQuoted(text, i) ==
  IF i > Len(text) THEN <<>>
  ELSE (IF /\ i + 4 <= Len(text)
           /\ text[i] = "File" /\ text[i + 1] = SP /\ text[i + 2] = "\""
           /\ IsPathToken(text[i + 3]) /\ text[i + 4] = "\""
        THEN <<<<text[i + 3]>>>> ELSE <<>>)
       \o MatchQuoted(text, i + 1)

RECURSIVE MatchIn(_, _)
MatchIn(text, i) ==
  IF i > Len(text) THEN <<>>
  ELSE (IF i + 2 <= Len(text) /\ text[i] = "in" /\ text[i + 1] = SP
           /\ IsPathToken(text[i + 2])
        THEN <<<<text[i + 2]>>>> ELSE <<>>)
       \o MatchIn(text, i + 1)

RECURSIVE MatchBare(_, _)
MatchBare(text, i) ==
  IF i > Len(text) THEN <<>>
  ELSE (IF IsPathToken(text[i]) THEN <<<<text[i]>>>> ELSE <<>>)
       \o MatchBare(text, i + 1)

MatchedFiles(text) == MatchQuoted(text, 1) \o MatchIn(text, 1) \o MatchBare(text, 1)

\* A sequence without the later occurrences of its elements.
RECURSIVE FirstOccurrences(_)
FirstOccurrences(s) ==
  IF s = <<>> THEN <<>>
  ELSE LET front == FirstOccurrences(SubSeq(s, 1, Len(s) - 1))
       IN  IF \E k \in 1..Len(front) : front[k] = s[Len(s)]
           THEN front ELSE Append(front, s[Len(s)])

\* _extract_file_paths that returns every path once.
_extract_file_paths_Dedup(text) ==
  FirstOccurrences(SelectSeq(MatchedFiles(text), LAMBDA f : PathExists(f) = "true"))


\* The filter loop: an existence check that raises ends the whole call.
ExistsRaises(files) == \E k \in 1..Len(files) : PathExists(files[k]) = "raise"
_extract_file_paths(text) ==
  SelectSeq(MatchedFiles(text), LAMBDA f : PathExists(f) = "true")

(***************************************************************************)
(* The inputs: issue texts, file lists and model replies.                  *)
(***************************************************************************)
IssueNoPath == <<"login", SP, "fails">>
IssueInPath == <<"Error", SP, "in", SP, "a.py", SP, "line", SP, "42">>
IssueTrace == <<"File", SP, "\"", "a.py", "\"", NL, "see", SP, "b.py">>
IssueLongName == <<"crash", SP, "long.py">>
Issues == {IssueNoPath, IssueInPath, IssueTrace, IssueLongName}

FileLists == {<<>>, <<<<"a.py">>>>, <<<<"a.py">>, <<"b.py">>>>}

ReplyReadA == <<"TOOL_REQUEST:", SP, "read_file", NL, "FILE:", SP, "a.py">>
ReplyReadARange ==
  <<"<thinking>", "look", "</thinking>", NL,
    "TOOL_REQUEST:", SP, "read_file", NL, "FILE:", SP, "a.py", NL,
    "START_LINE:", SP, "2", NL, "END_LINE:", SP, "3">>
ReplyReadAThenB ==
  <<"TOOL_REQUEST:", SP, "read_file", NL, "FILE:", SP, "a.py", NL,
    "TOOL_REQUEST:", SP, "read_file", NL, "FILE:", SP, "b.py">>
\* Two requests far enough apart for each to keep its own FILE: line.
ReplyReadAAndB ==
  <<"TOOL_REQUEST:", SP, "read_file", NL, "FILE:", SP, "a.py", NL,
    "first", NL, "then", NL, "also", NL,
    "TOOL_REQUEST:", SP, "read_file", NL, "FILE:", SP, "b.py">>
ReplyListDir == <<"TOOL_REQUEST:", SP, "list_dir", NL, "FILE:", SP, "a.py">>
ReplyMarkerOnly == <<"TOOL_REQUEST:", SP, "read_file", NL, "which", SP, "file">>
ReplyFinal ==
  <<"<thinking>", "trace", "</thinking>", NL,
    "<analysis>", NL,
    "ROOT_CAUSE:", SP, "null", SP, "user", NL,
    "EXPLANATION:", SP, "no", SP, "check", ".", NL,
    "CONFIDENCE:", SP, "HIGH", NL,
    "</analysis>", NL,
    "<solution>", "guard", "</solution>">>
ReplyPlain == <<"It", SP, "is", SP, "a", SP, "bug", ".", SP, "Maybe">>
ReplyEmpty == <<>>

ToolReplies ==
  {ReplyReadA, ReplyReadARange, ReplyReadAThenB, ReplyReadAAndB, ReplyListDir}
FinalReplies == {ReplyMarkerOnly, ReplyFinal, ReplyPlain, ReplyEmpty}
Replies == ToolReplies \cup FinalReplies

(***************************************************************************)
(* analyze_bug_direct: the prompt.                                         *)
(***************************************************************************)
AnalyzeInstruction == "Please analyze this systematically and identify the root cause."
FormatInstruction == "Provide your analysis in this format: <analysis> ... <solution> ..."
FilesHeading == "Relevant file contents:"
\* The Markdown code fence that opens and closes a file block.
FenceOpen == "~~~python"
FenceClose == "~~~"

\* The test of line 254 on a fetch result.
LooksFailed(file_content) == Contains(file_content, ErrorSentinel)

FencedBlock(file_content) == <<NL, FenceOpen, NL>> \o file_content \o <<NL, FenceClose, NL>>

\* The for loop of lines 252-258: one fenced block per file not taken as failed.
RECURSIVE FileBlocks(_, _)
FileBlocks(file_paths, k) ==
  IF k > Len(file_paths) THEN <<>>
  ELSE LET file_content == read_file_content(file_paths[k], <<>>, <<>>)
       IN  (IF ~LooksFailed(file_content) THEN FencedBlock(file_content) ELSE <<>>)
           \o FileBlocks(file_paths, k + 1)

comprehensive_prompt(issue, file_paths) ==
  <<NL>> \o issue \o <<NL, NL, AnalyzeInstruction, NL>>
  \o (IF file_paths # <<>>
      THEN <<NL, NL, FilesHeading, NL>> \o FileBlocks(file_paths, 1) ELSE <<>>)
  \o <<NL, FormatInstruction, NL>>

Fetch(file_path, start_line, end_line) ==
  [file_path |-> file_path, start_line |-> start_line, end_line |-> end_line]

DirectFetches(file_paths) ==
  [k \in 1..Len(file_paths) |-> Fetch(file_paths[k], <<>>, <<>>)]

PreviewLimit == 200
DirectTrace(text) ==
  <<<<"Direct analysis:", SP>> \o Prefix(text, PreviewLimit) \o Ellipsis>>

(***************************************************************************)
(* _analyze_bug_react: the turns and the processing of the tool requests   *)
(* of one reply.                                                           *)
(***************************************************************************)
Turn(role, content) == [role |-> role, content |-> content]

ReactInstruction == "Please analyze this bug report and identify the root cause:"
FinalInstruction ==
  "Now please provide your final analysis with <analysis> and <solution> blocks."
ForcingInstruction ==
  "Please provide your final analysis now with <analysis> and <solution> blocks."

FirstTurn(issue) == Turn("user", <<ReactInstruction, NL, NL>> \o issue)
ContentTurn(file_path, file_content) ==
  Turn("user", <<"File content for", SP>> \o file_path \o <<":", NL>>
               \o file_content \o <<NL, NL, FinalInstruction>>)
ForcingTurn == Turn("user", <<ForcingInstruction>>)

IterationTrace(k, text) ==
  <<"Iteration", SP, ToString(k), ":", SP>> \o Prefix(text, PreviewLimit) \o Ellipsis

\* IsNewRead without the test for the read_file tool.
IsNewRead_AnyTool(req, requested) ==
  req.file_path # <<>> /\ req.file_path \notin requested


\* IsNewRead without the membership test of line 487.
IsNewRead_NoDedup(req, requested) ==
  req.tool = <<"read_file">> /\ req.file_path # <<>>

\* The test of lines 486-487: is this request fetched?
IsNewRead(req, requested) ==
  req.tool = <<"read_file">> /\ req.file_path # <<>> /\ req.file_path \notin requested

\* ProcessRequests leaving a file that failed to load out of the conversation
\* and out of the set.
RECURSIVE ProcessRequests_SkipFailed(_, _, _)
ProcessRequests_SkipFailed(reqs, k, acc) ==
  IF k > Len(reqs) THEN acc
  ELSE LET req == reqs[k]
           file_content == read_file_content(req.file_path, req.start_line, req.end_line)
       IN  ProcessRequests_SkipFailed(reqs, k + 1,
             IF IsNewRead(req, acc.requested_files)
             THEN IF StartsWith(file_content, ErrorSentinel)
                     \/ StartsWith(file_content, NotFoundSentinel)
                  THEN [acc EXCEPT !.fetches =
                          Append(acc.fetches,
                                 Fetch(req.file_path, req.start_line, req.end_line))]
                  ELSE [messages |-> Append(acc.messages,
                                            ContentTurn(req.file_path, file_content)),
                        requested_files |-> acc.requested_files \cup {req.file_path},
                        new_files_added |-> TRUE,
                        fetches |-> Append(acc.fetches,
                                           Fetch(req.file_path, req.start_line,
                                                 req.end_line))]
             ELSE acc)


\* ProcessRequests that delivers a new file without recording its path.
RECURSIVE ProcessRequests_NoRecord(_, _, _)
ProcessRequests_NoRecord(reqs, k, acc) ==
  IF k > Len(reqs) THEN acc
  ELSE LET req == reqs[k]
           file_content == read_file_content(req.file_path, req.start_line, req.end_line)
       IN  ProcessRequests_NoRecord(reqs, k + 1,
             IF IsNewRead(req, acc.requested_files)
             THEN [messages |-> Append(acc.messages, ContentTurn(req.file_path, file_content)),
                   requested_files |-> acc.requested_files,
                   new_files_added |-> TRUE,
                   fetches |-> Append(acc.fetches,
                                      Fetch(req.file_path, req.start_line, req.end_line))]
             ELSE acc)


\* The for loop of lines 485-501 over the requests k.. of one reply.
RECURSIVE ProcessRequests(_, _, _)
ProcessRequests(reqs, k, acc) ==
  IF k > Len(reqs) THEN acc
  ELSE LET req == reqs[k]
           file_content == read_file_content(req.file_path, req.start_line, req.end_line)
       IN  ProcessRequests(reqs, k + 1,
             IF IsNewRead(req, acc.requested_files)
             THEN [messages |-> Append(acc.messages, ContentTurn(req.file_path, file_content)),
                   requested_files |-> acc.requested_files \cup {req.file_path},
                   new_files_added |-> TRUE,
                   fetches |-> Append(acc.fetches,
                                      Fetch(req.file_path, req.start_line, req.end_line))]
             ELSE acc)

ExhaustedText ==
  <<"Analysis", SP, "attempted", SP, "but", SP, "max", SP, "iterations", SP, "reached">>

(***************************************************************************)
(* Initial state: a BugSurgeon has been constructed, nothing is running.   *)
(***************************************************************************)
Init ==
  /\ disk \in [Paths -> DiskKinds]
  /\ pc = "idle"
  /\ entry = "none"
  /\ call_outcome = "none"
  /\ issue_description = <<>>
  /\ max_iterations = 0
  /\ route = <<>>
  /\ prompt = <<>>
  /\ messages = <<>>
  /\ iteration = 0
  /\ reasoning_trace = <<>>
  /\ requested_files = {}
  /\ response_text = <<>>
  /\ outcome = "pending"
  /\ result = <<>>
  /\ model_calls = 0
  /\ fetches = <<>>
  /\ parses = 0
  /\ unit_call = "none"
  /\ unit_arg = <<>>
  /\ unit_ret = <<>>
  /\ earlier_files = {}

\* EnterDirect calling the model once more for every file that failed to load.
EnterDirect_RetryOnFailedFetch(issue, file_paths) ==
  /\ route' = Append(route, "direct")
  /\ prompt' = comprehensive_prompt(issue, file_paths)
  /\ fetches' = DirectFetches(file_paths)
  /\ model_calls' =
       1 + Cardinality({k \in 1..Len(file_paths) :
                          LooksFailed(read_file_content(file_paths[k], <<>>, <<>>))})
  /\ call_outcome' = "pending"
  /\ pc' = "direct_call"
  /\ UNCHANGED <<messages, iteration, reasoning_trace, requested_files, outcome>>

\* analyze_bug_direct up to its model call (lines 238-282).
EnterDirect(issue, file_paths) ==
  /\ route' = Append(route, "direct")
  /\ prompt' = comprehensive_prompt(issue, file_paths)
  /\ fetches' = DirectFetches(file_paths)
  /\ model_calls' = 1
  /\ call_outcome' = "pending"
  /\ pc' = "direct_call"
  /\ UNCHANGED <<messages, iteration, reasoning_trace, requested_files, outcome>>

\* EnterReact with the set of requested files kept on the BugSurgeon.
EnterReact_SharedSet(issue) ==
  /\ route' = Append(route, "react")
  /\ messages' = <<FirstTurn(issue)>>
  /\ iteration' = 0
  /\ reasoning_trace' = <<>>
  /\ requested_files' = earlier_files
  /\ pc' = "react"
  /\ UNCHANGED <<prompt, fetches, model_calls, outcome, call_outcome>>


\* _analyze_bug_react up to the head of its loop (lines 450-459).
EnterReact(issue) ==
  /\ route' = Append(route, "react")
  /\ messages' = <<FirstTurn(issue)>>
  /\ iteration' = 0
  /\ reasoning_trace' = <<>>
  /\ requested_files' = {}
  /\ pc' = "react"
  /\ UNCHANGED <<prompt, fetches, model_calls, outcome, call_outcome>>

\* analyze_bug(issue, n) (lines 411-425).
AnalyzeBug(issue, n) ==
  /\ pc = "idle"
  /\ entry' = "analyze_bug"
  /\ issue_description' = issue
  /\ max_iterations' = n
  /\ IF ExistsRaises(MatchedFiles(issue))
     THEN /\ pc' = "done"
          /\ outcome' = "raised"
          /\ UNCHANGED <<route, prompt, messages, iteration, reasoning_trace,
                         requested_files, model_calls, fetches, call_outcome>>
     ELSE IF _extract_file_paths(issue) # <<>>
     THEN EnterDirect(issue, _extract_file_paths(issue))
     ELSE EnterReact(issue)
  /\ UNCHANGED <<unit, earlier_files, disk, response_text, result, parses>>

\* analyze_bug_direct(issue, file_paths) called by a client of the class.
AnalyzeBugDirect(issue, file_paths) ==
  /\ pc = "idle"
  /\ entry' = "analyze_bug_direct"
  /\ issue_description' = issue
  /\ EnterDirect(issue, file_paths)
  /\ UNCHANGED <<unit, earlier_files, disk, max_iterations, response_text, result, parses>>

\* DirectReply that keeps the trace of the parser when the reply has no
\* <analysis> span.
DirectReply_FallbackKeepsTrace(text) ==
  /\ pc = "direct_call"
  /\ call_outcome' = "replied"
  /\ response_text' = text
  /\ parses' = parses + 1
  /\ result' = IF SearchSpan(text, "<analysis>", "</analysis>") # <<>>
               THEN <<[extract_analysis(text) EXCEPT !.reasoning_trace = DirectTrace(text)]>>
               ELSE <<extract_analysis(text)>>
  /\ outcome' = "analysis"
  /\ pc' = "done"
  /\ UNCHANGED <<unit, earlier_files, disk, entry, issue_description, max_iterations, route, prompt,
                 messages, iteration, reasoning_trace, requested_files, model_calls,
                 fetches>>


\* The model answers the call of analyze_bug_direct (lines 284-292).  A
\* BugAnalysis is an object without __bool__ or __len__, so `if analysis` holds.
DirectReply(text) ==
  /\ pc = "direct_call"
  /\ call_outcome' = "replied"
  /\ response_text' = text
  /\ parses' = parses + 1
  /\ result' = <<[extract_analysis(text) EXCEPT !.reasoning_trace = DirectTrace(text)]>>
  /\ outcome' = "analysis"
  /\ pc' = "done"
  /\ UNCHANGED <<unit, earlier_files, disk, entry, issue_description, max_iterations, route, prompt,
                 messages, iteration, reasoning_trace, requested_files, model_calls,
                 fetches>>

\* DirectCallFails answering with a fallback record instead of None.
DirectCallFails_Fallback ==
  /\ pc = "direct_call"
  /\ call_outcome' = "failed"
  /\ result' = <<_create_fallback_analysis(<<>>)>>
  /\ outcome' = "analysis"
  /\ pc' = "done"
  /\ UNCHANGED <<unit, earlier_files, disk, entry, issue_description, max_iterations, route, prompt,
                 messages, iteration, reasoning_trace, requested_files, response_text,
                 model_calls, fetches, parses>>

\* The call of analyze_bug_direct raises (lines 298-300).
DirectCallFails ==
  /\ pc = "direct_call"
  /\ call_outcome' = "failed"
  /\ result' = <<>>
  /\ outcome' = "none"
  /\ pc' = "done"
  /\ UNCHANGED <<unit, earlier_files, disk, entry, issue_description, max_iterations, route, prompt,
                 messages, iteration, reasoning_trace, requested_files, response_text,
                 model_calls, fetches, parses>>

\* ReactCall with the loop test  iteration <= max_iterations.
ReactCall_OffByOne ==
  /\ pc = "react"
  /\ iteration <= max_iterations
  /\ model_calls' = model_calls + 1
  /\ call_outcome' = "pending"
  /\ pc' = "react_call"
  /\ UNCHANGED <<unit, earlier_files, disk, entry, issue_description, max_iterations, route, prompt,
                 messages, iteration, reasoning_trace, requested_files, response_text,
                 outcome, result, fetches, parses>>

\* The loop test holds and the model is called (lines 461-471).
ReactCall ==
  /\ pc = "react"
  /\ iteration < max_iterations
  /\ model_calls' = model_calls + 1
  /\ call_outcome' = "pending"
  /\ pc' = "react_call"
  /\ UNCHANGED <<unit, earlier_files, disk, entry, issue_description, max_iterations, route, prompt,
                 messages, iteration, reasoning_trace, requested_files, response_text,
                 outcome, result, fetches, parses>>

\* CloseBatch with the forcing turn after every batch.
CloseBatch_AlwaysForcing(done) == Append(done.messages, ForcingTurn)


\* CloseBatch without the forcing turn.
CloseBatch_NoForcing(done) == done.messages

\* CloseBatch that cuts the conversation down to its first turn before the
\* forcing turn.
CloseBatch_Trimmed(done) ==
  IF ~done.new_files_added
  THEN <<done.messages[1], ForcingTurn>>
  ELSE done.messages


\* Lines 503-508: the conversation once the requests of a reply are processed.
CloseBatch(done) ==
  IF ~done.new_files_added THEN Append(done.messages, ForcingTurn) ELSE done.messages

\* Lines 479-511: the reply holds tool requests.
ReactToolBranch(text, tool_requests) ==
  LET done == ProcessRequests(tool_requests, 1,
                [messages |-> Append(messages, Turn("assistant", text)),
                 requested_files |-> requested_files,
                 new_files_added |-> FALSE,
                 fetches |-> fetches])
  IN  /\ messages' = CloseBatch(done)
      /\ requested_files' = done.requested_files
      /\ fetches' = done.fetches
      /\ iteration' = iteration + 1
      /\ pc' = "react"
      /\ UNCHANGED <<outcome, result, parses>>

\* ReactFinalBranch that takes only a tagged reply as final and loops otherwise.
ReactFinalBranch_Retry(text, trace) ==
  IF SearchSpan(text, "<analysis>", "</analysis>") # <<>>
  THEN /\ parses' = parses + 1
       /\ result' = <<[extract_analysis(text) EXCEPT !.reasoning_trace = trace]>>
       /\ outcome' = "analysis"
       /\ pc' = "done"
       /\ UNCHANGED <<messages, requested_files, fetches, iteration>>
  ELSE /\ parses' = parses + 1
       /\ iteration' = iteration + 1
       /\ pc' = "react"
       /\ UNCHANGED <<messages, requested_files, fetches, outcome, result>>

\* ReactFinalBranch that leaves the trace of the parser in the record.
ReactFinalBranch_KeepParserTrace(text, trace) ==
  /\ parses' = parses + 1
  /\ result' = <<extract_analysis(text)>>
  /\ outcome' = "analysis"
  /\ pc' = "done"
  /\ UNCHANGED <<messages, requested_files, fetches, iteration>>


\* ReactFinalBranch that puts the final reply into the conversation.
ReactFinalBranch_AppendsReply(text, trace) ==
  /\ parses' = parses + 1
  /\ result' = <<[extract_analysis(text) EXCEPT !.reasoning_trace = trace]>>
  /\ outcome' = "analysis"
  /\ pc' = "done"
  /\ messages' = Append(messages, Turn("assistant", text))
  /\ UNCHANGED <<requested_files, fetches, iteration>>


\* Lines 513-518: the reply holds no tool request.  extract_analysis always
\* returns a BugAnalysis, so `if analysis` holds.
ReactFinalBranch(text, trace) ==
  /\ parses' = parses + 1
  /\ result' = <<[extract_analysis(text) EXCEPT !.reasoning_trace = trace]>>
  /\ outcome' = "analysis"
  /\ pc' = "done"
  /\ UNCHANGED <<messages, requested_files, fetches, iteration>>

\* The model answers a call of the loop (lines 473-518).
ReactReply(text) ==
  /\ pc = "react_call"
  /\ call_outcome' = "replied"
  /\ response_text' = text
  /\ reasoning_trace' = Append(reasoning_trace, IterationTrace(iteration + 1, text))
  /\ IF parse_tool_requests(text) # <<>>
     THEN ReactToolBranch(text, parse_tool_requests(text))
     ELSE ReactFinalBranch(text, reasoning_trace')
  /\ UNCHANGED <<unit, earlier_files, disk, entry, issue_description, max_iterations, route, prompt,
                 model_calls>>

\* ReactCallFails that gives up the whole invocation.
ReactCallFails_Abort ==
  /\ pc = "react_call"
  /\ call_outcome' = "failed"
  /\ result' = <<>>
  /\ outcome' = "none"
  /\ pc' = "done"
  /\ UNCHANGED <<unit, earlier_files, disk, entry, issue_description, max_iterations, route, prompt,
                 messages, iteration, reasoning_trace, requested_files, response_text,
                 model_calls, fetches, parses>>

\* ReactCallFails that calls again within the same iteration.
ReactCallFails_NoAdvance ==
  /\ pc = "react_call"
  /\ call_outcome' = "failed"
  /\ pc' = "react"
  /\ UNCHANGED <<unit, earlier_files, disk, entry, issue_description, max_iterations, route, prompt,
                 messages, iteration, reasoning_trace, requested_files, response_text, outcome,
                 result, model_calls, fetches, parses>>


\* ReactCallFails that notes the failure in the trace.
ReactCallFails_Logged ==
  /\ pc = "react_call"
  /\ call_outcome' = "failed"
  /\ iteration' = iteration + 1
  /\ reasoning_trace' = Append(reasoning_trace, IterationTrace(iteration + 1, <<>>))
  /\ pc' = "react"
  /\ UNCHANGED <<unit, earlier_files, disk, entry, issue_description, max_iterations, route, prompt,
                 messages, requested_files, response_text, outcome,
                 result, model_calls, fetches, parses>>


\* A call of the loop raises (lines 520-523).
ReactCallFails ==
  /\ pc = "react_call"
  /\ call_outcome' = "failed"
  /\ iteration' = iteration + 1
  /\ pc' = "react"
  /\ UNCHANGED <<unit, earlier_files, disk, entry, issue_description, max_iterations, route, prompt,
                 messages, reasoning_trace, requested_files, response_text, outcome,
                 result, model_calls, fetches, parses>>

\* ReactExhausted answering None.
ReactExhausted_NoResult ==
  /\ pc = "react"
  /\ ~(iteration < max_iterations)
  /\ result' = <<>>
  /\ outcome' = "none"
  /\ pc' = "done"
  /\ UNCHANGED <<unit, earlier_files, disk, entry, issue_description, max_iterations, route, prompt,
                 messages, iteration, reasoning_trace, requested_files, call_outcome,
                 response_text, model_calls, fetches, parses>>

\* ReactExhausted that attaches the snippets gathered in the loop.
ReactExhausted_KeepsTrace ==
  /\ pc = "react"
  /\ ~(iteration < max_iterations)
  /\ result' = <<[_create_fallback_analysis(ExhaustedText) EXCEPT
                    !.reasoning_trace = reasoning_trace]>>
  /\ outcome' = "analysis"
  /\ pc' = "done"
  /\ UNCHANGED <<unit, earlier_files, disk, entry, issue_description, max_iterations, route, prompt,
                 messages, iteration, reasoning_trace, requested_files, call_outcome,
                 response_text, model_calls, fetches, parses>>


\* The loop test fails (lines 525-526).
ReactExhausted ==
  /\ pc = "react"
  /\ ~(iteration < max_iterations)
  /\ result' = <<_create_fallback_analysis(ExhaustedText)>>
  /\ outcome' = "analysis"
  /\ pc' = "done"
  /\ UNCHANGED <<unit, earlier_files, disk, entry, issue_description, max_iterations, route, prompt,
                 messages, iteration, reasoning_trace, requested_files, call_outcome,
                 response_text, model_calls, fetches, parses>>

\* The locals of an invocation are gone when it returns.
LocalsGone ==
  /\ pc' = "idle"
  /\ entry' = "none"
  /\ issue_description' = <<>>
  /\ max_iterations' = 0
  /\ route' = <<>>
  /\ prompt' = <<>>
  /\ messages' = <<>>
  /\ iteration' = 0
  /\ reasoning_trace' = <<>>
  /\ requested_files' = {}
  /\ call_outcome' = "none"
  /\ response_text' = <<>>
  /\ outcome' = "pending"
  /\ result' = <<>>
  /\ model_calls' = 0
  /\ fetches' = <<>>
  /\ parses' = 0

\* The caller has its answer.
Return ==
  /\ pc = "done"
  /\ LocalsGone
  /\ UNCHANGED <<unit, earlier_files, disk>>

\* The caller has its answer, and the paths fetched are kept on record.
ReturnRecorded ==
  /\ pc = "done"
  /\ LocalsGone
  /\ earlier_files' = earlier_files \cup requested_files
  /\ UNCHANGED <<unit, disk>>

\* The iteration budgets a caller passes: none, too few, the default.
Budgets == (0 - 1)..MaxIterations

Next ==
  \/ \E issue \in Issues, n \in Budgets : AnalyzeBug(issue, n)
  \/ \E issue \in Issues, file_paths \in FileLists : AnalyzeBugDirect(issue, file_paths)
  \/ \E text \in Replies : DirectReply(text)
  \/ DirectCallFails
  \/ ReactCall
  \/ \E text \in Replies : ReactReply(text)
  \/ ReactCallFails
  \/ ReactExhausted
  \/ Return

Spec == Init /\ [][Next]_vars

\* Every call of the model returns or fails, and the interpreter runs on.
LiveSpec == Spec /\ WF_vars(Next)

(***************************************************************************)
(* The response parser and the tool-request parser applied on their own.   *)
(* A reply is put together from a few pieces, one or more lines each, so   *)
(* that tags come closed, unclosed, repeated and in any order.             *)
(***************************************************************************)
MaxPieces == 3
MaxHeadLines == 3

TaggedAll ==
  <<"<analysis>", NL,
    "ROOT_CAUSE:", SP, "null", ":", "user", SP, NL,
    SP, "EXPLANATION:", SP, "no", SP, "check", ".", NL,
    "CONFIDENCE:", SP, "HIGH", NL,
    "</analysis>">>
TaggedNoConfidence ==
  <<"<analysis>", "ROOT_CAUSE:", SP, "race", NL,
    "EXPLANATION:", SP, "lock", "</analysis>">>
TaggedEmptyValues ==
  <<"<analysis>", NL, "ROOT_CAUSE:", NL, "EXPLANATION:", SP, NL,
    "CONFIDENCE:", NL, "</analysis>">>
OpenAnalysis == <<"<analysis>">>
CloseAnalysis == <<"</analysis>">>
FieldLines ==
  <<"ROOT_CAUSE:", SP, "leak", NL, "EXPLANATION:", "cache", NL,
    "CONFIDENCE:", SP, "LOW">>
Thinking == <<"<thinking>", SP, "step", SP, "</thinking>">>
OpenThinking == <<"<thinking>", "more">>
Solution == <<"<solution>", "guard", "</solution>">>
Sentence == <<"It", SP, "fails", ".", SP, "Maybe">>
PeriodFirst == <<".", "x">>
WideLine == <<WideWord, WideWord, WideWord>>

ReplyPieces ==
  {TaggedAll, TaggedNoConfidence, TaggedEmptyValues, OpenAnalysis, CloseAnalysis,
   FieldLines, Thinking, OpenThinking, Solution, Sentence, PeriodFirst, WideLine}

\* The sequences of at most n elements of S.
SeqsUpTo(S, n) == UNION {[1..k -> S] : k \in 0..n}

ReplyTexts == {JoinWith(ps, NL) : ps \in SeqsUpTo(ReplyPieces, MaxPieces)}

\* The lines of a reply that asks for files.
MarkerRead == <<"TOOL_REQUEST:", SP, "read_file">>
MarkerList == <<SP, "TOOL_REQUEST:", "list_dir", SP>>
FileA == <<"FILE:", SP, "a.py">>
FileB == <<SP, "FILE:", SP, SP, "b.py", SP>>
FileEmpty == <<"FILE:", SP>>
StartTwo == <<"START_LINE:", SP, "2">>
StartBad == <<"START_LINE:", SP, "two">>
EndThree == <<"END_LINE:", "3", SP>>
StartZero == <<"START_LINE:", SP, "0">>
EndMinus == <<"END_LINE:", SP, "-1">>
FillerLine == <<"then">>

ToolLines ==
  {MarkerRead, MarkerList, FileA, FileB, FileEmpty, StartTwo, StartBad, EndThree}
ToolTails ==
  {<<>>, <<FileA>>, <<FileB>>, <<EndThree>>, <<FileB, StartTwo, EndThree>>,
   <<FileA, StartZero, EndMinus>>}

\* Some lines, then up to FieldWindow filler lines, then a tail: a field line
\* of the tail lies up to FieldWindow + 1 lines after a marker of the head.
ToolTexts ==
  {JoinWith(head \o [k \in 1..gap |-> FillerLine] \o tail, NL) :
     head \in SeqsUpTo(ToolLines, MaxHeadLines), gap \in 0..FieldWindow,
     tail \in ToolTails}

\* The invocation variables while no analysis runs.
NoInvocation ==
  /\ pc = "idle"
  /\ entry = "none"
  /\ call_outcome = "none"
  /\ issue_description = <<>>
  /\ max_iterations = 0
  /\ route = <<>>
  /\ prompt = <<>>
  /\ messages = <<>>
  /\ iteration = 0
  /\ reasoning_trace = <<>>
  /\ requested_files = {}
  /\ response_text = <<>>
  /\ outcome = "pending"
  /\ result = <<>>
  /\ model_calls = 0
  /\ fetches = <<>>
  /\ parses = 0

invocation ==
  <<pc, entry, issue_description, max_iterations, route, prompt, messages,
    iteration, reasoning_trace, requested_files, call_outcome, response_text,
    outcome, result, model_calls, fetches, parses>>

ParserInit ==
  /\ disk = [p \in Paths |-> "present"]
  /\ NoInvocation
  /\ unit_call = "none"
  /\ unit_arg = <<>>
  /\ unit_ret = <<>>
  /\ earlier_files = {}

\* extract_analysis(text) for a reply text (lines 348-391).
ExtractAnalysis ==
  /\ unit_call = "none"
  /\ \E text \in ReplyTexts :
       /\ unit_call' = "extract_analysis"
       /\ unit_arg' = text
       /\ unit_ret' = extract_analysis(text)
  /\ UNCHANGED <<disk, invocation, earlier_files>>

\* parse_tool_requests(text) (lines 302-346).
ParseToolRequests ==
  /\ unit_call = "none"
  /\ \E text \in ToolTexts :
       /\ unit_call' = "parse_tool_requests"
       /\ unit_arg' = text
       /\ unit_ret' = parse_tool_requests(text)
  /\ UNCHANGED <<disk, invocation, earlier_files>>

\* The client has the value; the call is over.
UnitReturn ==
  /\ unit_call # "none"
  /\ unit_call' = "none"
  /\ unit_arg' = <<>>
  /\ unit_ret' = <<>>
  /\ UNCHANGED <<disk, invocation, earlier_files>>

ParserNext ==
  \/ ExtractAnalysis
  \/ ParseToolRequests
  \/ UnitReturn

ParserSpec == ParserInit /\ [][ParserNext]_vars

(***************************************************************************)
(* read_file_content applied on its own, on every disk.                    *)
(***************************************************************************)
ReadPaths == {<<"a.py">>, <<"b.py">>, <<LongName>>, <<"lib", "/", "a.py">>}
LineArgs == {<<>>} \cup {<<n>> : n \in (0 - 1)..(FileLineCount + 1)}

ProviderInit ==
  /\ disk \in [Paths -> DiskKinds]
  /\ NoInvocation
  /\ unit_call = "none"
  /\ unit_arg = <<>>
  /\ unit_ret = <<>>
  /\ earlier_files = {}

\* read_file_content(file_path, start_line, end_line) (lines 205-236).
ReadFileContent ==
  /\ unit_call = "none"
  /\ \E file_path \in ReadPaths, start_line \in LineArgs, end_line \in LineArgs :
       /\ unit_call' = "read_file_content"
       /\ unit_arg' = Fetch(file_path, start_line, end_line)
       /\ unit_ret' = read_file_content(file_path, start_line, end_line)
  /\ UNCHANGED <<disk, invocation, earlier_files>>

ProviderNext ==
  \/ ReadFileContent
  \/ UnitReturn

ProviderSpec == ProviderInit /\ [][ProviderNext]_vars

(***************************************************************************)
(* Successive invocations.                                                *)
(***************************************************************************)
\* Successive invocations on one BugSurgeon over a disk that holds every file,
\* with a record of what the earlier invocations fetched.
SessionInit ==
  /\ disk = [p \in Paths |-> "present"]
  /\ NoInvocation
  /\ unit_call = "none"
  /\ unit_arg = <<>>
  /\ unit_ret = <<>>
  /\ earlier_files = {}

SessionNext ==
  \/ \E issue \in Issues, n \in Budgets : AnalyzeBug(issue, n)
  \/ \E issue \in Issues, file_paths \in FileLists : AnalyzeBugDirect(issue, file_paths)
  \/ \E text \in Replies : DirectReply(text)
  \/ DirectCallFails
  \/ ReactCall
  \/ \E text \in Replies : ReactReply(text)
  \/ ReactCallFails
  \/ ReactExhausted
  \/ ReturnRecorded

SessionSpec == SessionInit /\ [][SessionNext]_vars

(***************************************************************************)
(* Properties.                                                             *)
(***************************************************************************)
AssistantTurns(msgs) == Cardinality({k \in 1..Len(msgs) : msgs[k].role = "assistant"})

InReact == route = <<"react">>
InDirect == route = <<"direct">>

\* The record _analyze_bug_react returns when its budget is used up.
IsExhaustedRecord(a) ==
  /\ a.root_cause = ExhaustedText
  /\ a.explanation = ExhaustedText
  /\ DOMAIN a.file_changes = {"analysis.md"}
  /\ a.file_changes["analysis.md"] = ExhaustedText
  /\ a.confidence = <<"MEDIUM">>

\* C1: within one ReAct invocation read_file_content is called at most once
\* for any path, whatever the replies: a path requested again later, twice in
\* one reply or with another line range is not fetched again.
C1_FetchedAtMostOnce ==
  InReact =>
    \A i, j \in 1..Len(fetches) :
      i # j => fetches[i].file_path # fetches[j].file_path

\* a.py was fetched whole, then requested again with a line range and skipped.
C1_Witness ==
  /\ InReact /\ pc = "react" /\ call_outcome = "replied"
  /\ response_text = ReplyReadARange
  /\ fetches = <<Fetch(<<"a.py">>, <<>>, <<>>)>>
  /\ iteration >= 2

\* C2: a ReAct invocation makes at most N model calls for a budget N (none
\* when N <= 0), every pass through the loop returns or uses one unit of the
\* budget, and the invocation ends.
C2_BudgetBoundsCalls ==
  /\ [](InReact =>
          /\ model_calls <= Max(max_iterations, 0)
          /\ (pc = "react" => iteration = model_calls)
          /\ (pc = "react_call" => iteration + 1 = model_calls)
          /\ (pc = "done" => iteration <= model_calls /\ model_calls <= iteration + 1))
  /\ ((InReact /\ pc # "done") ~> (pc = "done"))

\* The whole budget was spent on calls.
C2_Witness ==
  /\ InReact /\ pc = "done"
  /\ max_iterations = MaxIterations /\ model_calls = MaxIterations
  /\ AssistantTurns(messages) >= 1

\* C3: with a budget N >= 1 and tool requests in every reply, the invocation
\* makes exactly N calls and returns the fallback record of the placeholder
\* text: confidence MEDIUM, file_changes with the one key analysis.md.
C3_ExhaustedAfterBudget ==
  (InReact /\ pc = "done" /\ max_iterations >= 1
     /\ parses = 0 /\ AssistantTurns(messages) = iteration)
  => /\ iteration = max_iterations
     /\ model_calls = max_iterations
     /\ outcome = "analysis"
     /\ Len(result) = 1
     /\ IsExhaustedRecord(result[1])

C3_Witness ==
  /\ InReact /\ pc = "done" /\ max_iterations = MaxIterations
  /\ parses = 0 /\ AssistantTurns(messages) = MaxIterations
  /\ outcome = "analysis"

\* C4: a reply whose tool requests all name paths of requested_files fetches
\* nothing and appends exactly the assistant turn and the forcing turn.
C4_DuplicatesForceFinal ==
  [][(/\ pc = "react_call"
      /\ call_outcome' = "replied"
      /\ parse_tool_requests(response_text') # <<>>
      /\ \A k \in 1..Len(parse_tool_requests(response_text')) :
           parse_tool_requests(response_text')[k].file_path \in requested_files)
     => /\ fetches' = fetches
        /\ requested_files' = requested_files
        /\ messages' = messages \o <<Turn("assistant", response_text'), ForcingTurn>>]_vars

\* The second request of a.py was answered by the forcing turn.
C4_Witness ==
  /\ InReact /\ pc = "react" /\ Len(messages) = 5
  /\ messages[4] = Turn("assistant", ReplyReadA)
  /\ messages[5] = ForcingTurn
  /\ requested_files = {<<"a.py">>}
  /\ Len(fetches) = 1

\* Does the resolver find a mentioned file that exists?
ResolverFinds(issue) ==
  \E k \in 1..Len(MatchedFiles(issue)) : PathExists(MatchedFiles(issue)[k]) = "true"

\* C5: analyze_bug runs exactly one analysis path per call: the Direct path
\* when the resolver returns a path, the ReAct path when it returns none, never
\* both; a Direct path without result is not followed by the ReAct path.
C5_OnePathPerCall ==
  entry = "analyze_bug" =>
    /\ route = IF ResolverFinds(issue_description) THEN <<"direct">> ELSE <<"react">>
    /\ (InDirect => messages = <<>> /\ iteration = 0 /\ model_calls = 1)
    /\ (InReact => prompt = <<>>)
    /\ (InDirect /\ call_outcome = "failed" =>
          pc = "done" /\ outcome = "none" /\ result = <<>>)

\* A BugAnalysis with its five fields and at least one file change.
IsBugAnalysis(a) ==
  /\ DOMAIN a = {"root_cause", "explanation", "file_changes", "reasoning_trace",
                 "confidence"}
  /\ DOMAIN a.file_changes # {}

\* C6: whatever the issue text, the model and the file provider do, analyze_bug
\* ends by returning a BugAnalysis or None; no error leaves analyze_bug.
C6_AnalysisOrNone ==
  (entry = "analyze_bug" /\ pc = "done") =>
    \/ outcome = "analysis" /\ Len(result) = 1 /\ IsBugAnalysis(result[1])
    \/ outcome = "none" /\ result = <<>>

\* C7: in the ReAct path a failed call uses one unit of the budget and the
\* loop goes on; the path never returns None, and when every call fails it
\* returns the exhausted-fallback record.
C7_FailedCallGoesOn ==
  /\ [](InReact /\ pc = "done" =>
          /\ outcome = "analysis"
          /\ Len(result) = 1
          /\ (reasoning_trace = <<>> => IsExhaustedRecord(result[1])))
  /\ [][(pc = "react_call" /\ call_outcome' = "failed")
        => /\ pc' = "react"
           /\ iteration' = iteration + 1
           /\ outcome' = "pending"
           /\ model_calls' = model_calls]_vars

\* Every call of a full budget failed and a record was returned.
C7_Witness ==
  /\ InReact /\ pc = "done" /\ call_outcome = "failed"
  /\ max_iterations = MaxIterations /\ model_calls = MaxIterations
  /\ reasoning_trace = <<>>
  /\ outcome = "analysis"

\* C8: in the ReAct path the first reply without tool request ends the
\* invocation: the record of extract_analysis is returned, tagged or of the
\* fallback shape, and no further model call is made.
C8_FinalReplyEnds ==
  /\ [][(/\ pc = "react_call"
         /\ call_outcome' = "replied"
         /\ parse_tool_requests(response_text') = <<>>)
        => /\ pc' = "done"
           /\ outcome' = "analysis"
           /\ model_calls' = model_calls
           /\ Len(result') = 1
           /\ result'[1].root_cause = extract_analysis(response_text').root_cause
           /\ result'[1].explanation = extract_analysis(response_text').explanation
           /\ result'[1].reasoning_trace = reasoning_trace'
           /\ IF SearchSpan(response_text', "<analysis>", "</analysis>") # <<>>
              THEN DOMAIN result'[1].file_changes = {"solution.md"}
              ELSE /\ DOMAIN result'[1].file_changes = {"analysis.md"}
                   /\ result'[1].file_changes["analysis.md"] = response_text'
                   /\ result'[1].confidence = <<"MEDIUM">>]_vars
  /\ [][pc = "done" => pc' = "idle"]_vars

\* An untagged reply ended the invocation before the budget was used up.
C8_Witness ==
  /\ InReact /\ pc = "done" /\ response_text = ReplyPlain
  /\ call_outcome = "replied"
  /\ model_calls < max_iterations
  /\ AssistantTurns(messages) >= 1
  /\ DOMAIN result[1].file_changes = {"analysis.md"}

\* C9: the prompt of the Direct path holds no fetch result that is a failure
\* sentinel, in either form ("Error reading file:", "File not found:").
C9_SentinelsExcluded ==
  InDirect => ~Contains(prompt, ErrorSentinel) /\ ~Contains(prompt, NotFoundSentinel)

\* C10: when the model call of the Direct path fails, the path returns None;
\* nothing is parsed and no second call is made.
C10_DirectFailureIsNone ==
  (InDirect /\ call_outcome = "failed") =>
    /\ pc = "done"
    /\ outcome = "none"
    /\ result = <<>>
    /\ parses = 0
    /\ model_calls = 1

C10_Witness ==
  /\ InDirect /\ entry = "analyze_bug_direct" /\ call_outcome = "failed"
  /\ pc = "done" /\ Len(fetches) = 2

\* A file of the list analyze_bug_direct was given did not load.
FetchFailed(k) ==
  LET file_content == read_file_content(fetches[k].file_path, <<>>, <<>>)
  IN  StartsWith(file_content, ErrorSentinel)
      \/ StartsWith(file_content, NotFoundSentinel)

\* C11: the Direct path issues exactly one model call per invocation, whatever
\* the file list is (empty, all readable, some or all unreadable): from its
\* call on the count is one and stays one until the caller has its answer, so
\* a failed file fetch neither suppresses the call nor causes a second one.
C11_DirectCallsOnce ==
  /\ [](InDirect => model_calls = 1)
  /\ [][InDirect /\ pc' # "idle" => model_calls' = 1]_vars

C11_Witness ==
  /\ InDirect /\ pc = "done" /\ model_calls = 1
  /\ Len(fetches) = 2 /\ FetchFailed(1) /\ ~FetchFailed(2)

\* The text holds an <analysis> tag with an </analysis> tag after it.
HasAnalysisSpan(text) ==
  \E i \in 1..Len(text), j \in 1..Len(text) :
    i < j /\ text[i] = "<analysis>" /\ text[j] = "</analysis>"

\* C12: extract_analysis is total: for every reply text (empty, untagged, with
\* unclosed or reordered tags) it returns a BugAnalysis, and the file_changes
\* of the record has at least one entry: the key solution.md when the reply
\* holds an <analysis>...</analysis> span, the key analysis.md otherwise.
C12_ExtractIsTotal ==
  unit_call = "extract_analysis" =>
    /\ IsBugAnalysis(unit_ret)
    /\ DOMAIN unit_ret.file_changes =
         IF HasAnalysisSpan(unit_arg) THEN {"solution.md"} ELSE {"analysis.md"}

C12_Witness ==
  /\ unit_call = "extract_analysis"
  /\ unit_arg = JoinWith(<<CloseAnalysis, OpenAnalysis, OpenThinking>>, NL)
  /\ DOMAIN unit_ret.file_changes = {"analysis.md"}

\* C13: for every reply with no <analysis>...</analysis> span, the fallback
\* record has a non-empty root_cause of at most 203 characters and an
\* explanation of at most 503 characters; this includes the empty reply and a
\* reply whose first character is a period.
C13_FallbackBounded ==
  (unit_call = "extract_analysis" /\ ~HasAnalysisSpan(unit_arg)) =>
    /\ unit_ret.root_cause # <<>>
    /\ StrLen(unit_ret.root_cause) <= RootCauseLimit + StrLen(Ellipsis)
    /\ StrLen(unit_ret.explanation) <= ExplanationLimit + StrLen(Ellipsis)

\* The lines of an <analysis> body that start with a label, by position.
LabelLines(body, label) ==
  {k \in 1..Len(SplitOn(body, NL)) : StartsWith(Strip(SplitOn(body, NL)[k]), label)}

\* The trimmed text after the colon of the k-th line of the body.
LabelValue(body, k) == Strip(Tail(Strip(SplitOn(body, NL)[k])))

\* The trimmed text of the last line of the body that starts with the label.
LastValue(body, label) ==
  LabelValue(body, CHOOSE k \in LabelLines(body, label) :
                     \A m \in LabelLines(body, label) : m <= k)

HasAllLabels(body) ==
  \A label \in {"ROOT_CAUSE:", "EXPLANATION:", "CONFIDENCE:"} :
    LabelLines(body, label) # {}

\* The <analysis> blocks of a reply.
AnalysisBlocks(text) ==
  LET spans == FindAllSpans(text, "<analysis>", "</analysis>")
  IN  {spans[k] : k \in 1..Len(spans)}

\* C14 as stated: for every reply containing an <analysis> block in which
\* ROOT_CAUSE:, EXPLANATION: and CONFIDENCE: lines are all present, root_cause,
\* explanation and confidence equal exactly the trimmed text after the first
\* colon of the respective line, confidence being the given value.
C14_FieldsAsGiven ==
  unit_call = "extract_analysis" =>
    \A body \in AnalysisBlocks(unit_arg) :
      HasAllLabels(body) =>
        /\ \E k \in LabelLines(body, "ROOT_CAUSE:") :
             unit_ret.root_cause = LabelValue(body, k)
        /\ \E k \in LabelLines(body, "EXPLANATION:") :
             unit_ret.explanation = LabelValue(body, k)
        /\ \E k \in LabelLines(body, "CONFIDENCE:") :
             unit_ret.confidence = LabelValue(body, k)

\* C14, amended: when the first <analysis>...</analysis> span of the reply has
\* ROOT_CAUSE:, EXPLANATION: and CONFIDENCE: lines, confidence is the trimmed
\* text after the colon of the last CONFIDENCE: line, also when it is empty;
\* root_cause and explanation are the trimmed text of their last line when it
\* is non-empty, and otherwise "Analysis completed" and the first 500
\* characters of the reply followed by "...".
C14_FieldsAsGivenOrDefault ==
  (unit_call = "extract_analysis" /\ HasAnalysisSpan(unit_arg)) =>
    LET body == SearchSpan(unit_arg, "<analysis>", "</analysis>")[1]
        root_cause == LastValue(body, "ROOT_CAUSE:")
        explanation == LastValue(body, "EXPLANATION:")
    IN  HasAllLabels(body) =>
          /\ unit_ret.confidence = LastValue(body, "CONFIDENCE:")
          /\ unit_ret.root_cause =
               IF root_cause # <<>> THEN root_cause
               ELSE <<"Analysis", SP, "completed">>
          /\ unit_ret.explanation =
               IF explanation # <<>> THEN explanation
               ELSE Prefix(unit_arg, ExplanationLimit) \o Ellipsis

C14_Witness ==
  /\ unit_call = "extract_analysis"
  /\ unit_arg = JoinWith(<<Thinking, TaggedAll, Solution>>, NL)
  /\ unit_ret.root_cause = <<"null", ":", "user">>
  /\ unit_ret.explanation = <<"no", SP, "check", ".">>
  /\ unit_ret.confidence = <<"HIGH">>

\* No line of the text starts, blanks aside, with the CONFIDENCE: label.
NoConfidenceLine(text) ==
  \A k \in 1..Len(SplitOn(text, NL)) :
    ~StartsWith(Strip(SplitOn(text, NL)[k]), "CONFIDENCE:")

\* C15: for every reply with no CONFIDENCE: line, with or without an
\* <analysis> span, the confidence of the returned record is MEDIUM.
C15_ConfidenceDefaultsToMedium ==
  (unit_call = "extract_analysis" /\ NoConfidenceLine(unit_arg)) =>
    unit_ret.confidence = <<"MEDIUM">>

C15_Witness ==
  /\ unit_call = "extract_analysis"
  /\ unit_arg = JoinWith(<<Thinking, TaggedNoConfidence>>, NL)
  /\ unit_ret.root_cause = <<"race">>
  /\ unit_ret.confidence = <<"MEDIUM">>

\* The <thinking>...</thinking> spans of a text, told by their closing tags:
\* a closing tag ends a span when an opening tag lies between it and the
\* closing tag before it, and the span starts at the first such opening tag.
PrevClose(text, j) ==
  LET before == {c \in 1..(j - 1) : text[c] = "</thinking>"}
  IN  IF before = {} THEN 0 ELSE CHOOSE c \in before : \A b \in before : b <= c

SpanOpens(text, j) ==
  {i \in (PrevClose(text, j) + 1)..(j - 1) : text[i] = "<thinking>"}

ThinkingEnds(text) ==
  {j \in 1..Len(text) : text[j] = "</thinking>" /\ SpanOpens(text, j) # {}}

ThinkingBody(text, j) ==
  LET i == CHOOSE x \in SpanOpens(text, j) : \A y \in SpanOpens(text, j) : x <= y
  IN  SubSeq(text, i + 1, j - 1)

\* C16: for a reply with N <thinking>...</thinking> spans (N >= 0), the
\* reasoning_trace of the returned record has exactly N entries, and the i-th
\* entry is the trimmed body of the i-th span, in the tagged shape and in the
\* fallback shape alike.
C16_TracePerThinkingSpan ==
  unit_call = "extract_analysis" =>
    /\ Len(unit_ret.reasoning_trace) = Cardinality(ThinkingEnds(unit_arg))
    /\ \A j \in ThinkingEnds(unit_arg) :
         unit_ret.reasoning_trace[Cardinality({e \in ThinkingEnds(unit_arg) : e <= j})]
           = Strip(ThinkingBody(unit_arg, j))

C16_Witness ==
  /\ unit_call = "extract_analysis"
  /\ unit_arg = JoinWith(<<Thinking, TaggedAll, Thinking>>, NL)
  /\ unit_ret.reasoning_trace = <<<<"step">>, <<"step">>>>
  /\ DOMAIN unit_ret.file_changes = {"solution.md"}

\* The lines of a text that are TOOL_REQUEST: markers, by position.
MarkerLines(lines) ==
  {k \in 1..Len(lines) : StartsWith(Strip(lines[k]), "TOOL_REQUEST:")}

\* The last of the lines after marker m that are its own: they lie among the
\* FieldWindow lines after it and before the next marker.
OwnLinesEnd(lines, m) ==
  LET later == {k \in MarkerLines(lines) : k > m}
      next == IF later = {} THEN Len(lines) + 1
              ELSE CHOOSE k \in later : \A x \in later : k <= x
  IN  Min(Min(m + FieldWindow, Len(lines)), next - 1)

\* The requests of a text when every marker takes its fields from its own
\* lines only.
RECURSIVE OwnLinesRequests(_, _)
OwnLinesRequests(lines, i) ==
  IF i > Len(lines) THEN <<>>
  ELSE LET req == ScanFields(lines, i + 1, OwnLinesEnd(lines, i),
                             ToolRequest(Strip(Tail(Strip(lines[i]))), <<>>, <<>>, <<>>))
       IN  (IF i \in MarkerLines(lines) /\ req.file_path # <<>> THEN <<req>> ELSE <<>>)
           \o OwnLinesRequests(lines, i + 1)

\* C17: when a reply holds several TOOL_REQUEST: markers, the requests come in
\* marker order and each is built from the lines of its own marker only, never
\* from a line that follows a later marker: a request for a.py followed at
\* once by a request for b.py gives a.py, then b.py.
C17_RequestsIndependent ==
  unit_call = "parse_tool_requests" =>
    unit_ret = OwnLinesRequests(SplitOn(unit_arg, NL), 1)

\* The 4 lines that follow marker m, by position.
WindowLines(lines, m) == {k \in (m + 1)..(m + 4) : k <= Len(lines)}

\* The trimmed text after the colon of the last line of the window of marker m
\* that starts with the label; <<>> when no line of the window does.
WindowValue(lines, m, label) ==
  LET found == {k \in WindowLines(lines, m) : StartsWith(Strip(lines[k]), label)}
  IN  IF found = {} THEN <<>>
      ELSE Strip(Tail(Strip(lines[CHOOSE k \in found : \A x \in found : x <= k])))

IsIntText(s) == Len(s) = 1 /\ \E n \in IntTokens : ToString(n) = s[1]
IntOfText(s) == CHOOSE n \in IntTokens : ToString(n) = s[1]

\* C18: a reply with a single TOOL_REQUEST: <tool> line that is followed,
\* within the next 4 lines, by a FILE: line with a path and by START_LINE: and
\* END_LINE: lines with integer values parses to exactly one ToolRequest whose
\* tool, file_path, start_line and end_line are the values given, trimmed.
C18_SingleRequestParsed ==
  unit_call = "parse_tool_requests" =>
    LET lines == SplitOn(unit_arg, NL)
    IN  \A m \in MarkerLines(lines) :
          ( /\ MarkerLines(lines) = {m}
            /\ WindowValue(lines, m, "FILE:") # <<>>
            /\ IsIntText(WindowValue(lines, m, "START_LINE:"))
            /\ IsIntText(WindowValue(lines, m, "END_LINE:")) )
          => unit_ret =
               <<ToolRequest(Strip(Tail(Strip(lines[m]))),
                             WindowValue(lines, m, "FILE:"),
                             <<IntOfText(WindowValue(lines, m, "START_LINE:"))>>,
                             <<IntOfText(WindowValue(lines, m, "END_LINE:"))>>)>>

C18_Witness ==
  /\ unit_call = "parse_tool_requests"
  /\ unit_arg = JoinWith(<<MarkerList, FileB, StartTwo, EndThree>>, NL)
  /\ unit_ret = <<ToolRequest(<<"list_dir">>, <<"b.py">>, <<2>>, <<3>>)>>

\* The non-empty values of the FILE: lines among the 4 lines after marker m.
WindowFiles(lines, m) ==
  {Strip(Tail(Strip(lines[k]))) :
     k \in {x \in WindowLines(lines, m) : StartsWith(Strip(lines[x]), "FILE:")}}
  \ {<<>>}

\* C19: a TOOL_REQUEST: marker with no FILE: line of non-empty value among the
\* 4 lines that follow it produces no request, a FILE: line five or more lines
\* after a marker is not attributed to it, and there are never more requests
\* than marker lines.
C19_NoFileNoRequest ==
  unit_call = "parse_tool_requests" =>
    LET lines == SplitOn(unit_arg, NL)
    IN  /\ Len(unit_ret) <= Cardinality(MarkerLines(lines))
        /\ Len(unit_ret)
             <= Cardinality({m \in MarkerLines(lines) : WindowFiles(lines, m) # {}})
        /\ \A k \in 1..Len(unit_ret) :
             \E m \in MarkerLines(lines) : unit_ret[k].file_path \in WindowFiles(lines, m)

C19_Witness ==
  /\ unit_call = "parse_tool_requests"
  /\ unit_arg = JoinWith(<<MarkerRead, FillerLine, FillerLine, FillerLine, FillerLine,
                           FileA>>, NL)
  /\ unit_ret = <<>>

\* The text is a run of consecutive lines of the file, possibly none.
IsRunOfLines(text, file_path) ==
  LET lines == SplitOn(FileText(file_path), NL)
  IN  \/ text = <<>>
      \/ \E lo \in 1..Len(lines), hi \in 1..Len(lines) :
           lo <= hi /\ text = JoinWith(SubSeq(lines, lo, hi), NL)

\* What follows the first line of a text.
AfterFirstLine(text) ==
  LET k == CHOOSE i \in 1..Len(text) : text[i] = NL /\ \A j \in 1..(i - 1) : text[j] # NL
  IN  SubSeq(text, k + 1, Len(text))

\* C20: read_file_content never raises.  When the provider fails or the file
\* does not exist it returns a sentinel string that begins with "Error reading
\* file:" or "File not found:"; when the read succeeds it returns a string that
\* begins with the header "# <path>", followed by the file text (the whole
\* text without a line range, lines of it with one).
C20_SentinelOrHeader ==
  unit_call = "read_file_content" =>
    LET file_path == unit_arg.file_path
        header == <<"#", SP>> \o file_path
    IN  /\ unit_ret \in Seq(STRING)
        /\ IF DiskKind(file_path) = "present"
           THEN /\ Len(unit_ret) > Len(header)
                /\ SubSeq(unit_ret, 1, Len(header)) = header
                /\ unit_ret[Len(header) + 1] \in {NL, SP}
                /\ IF unit_arg.start_line \in {<<>>, <<0>>}
                      /\ unit_arg.end_line \in {<<>>, <<0>>}
                   THEN unit_ret = header \o <<NL>> \o FileText(file_path)
                   ELSE IsRunOfLines(AfterFirstLine(unit_ret), file_path)
           ELSE unit_ret[1] \in {"Error reading file:", "File not found:"}

C20_Witness ==
  /\ unit_call = "read_file_content"
  /\ unit_arg = Fetch(<<"a.py">>, <<>>, <<>>)
  /\ disk["a.py"] = "unreadable"
  /\ unit_ret[1] = "Error reading file:"

\* A line bound a caller gives as a 1-based line number, or leaves out.
IsLineNumberOrNone(opt) == opt = <<>> \/ opt[1] >= 1

\* Lines lo..hi of a text, as far as the text has them.
LinesFromTo(lines, lo, hi) ==
  [i \in 1..Max(Min(hi, Len(lines)) - lo + 1, 0) |-> lines[lo + i - 1]]

\* C21: for a file of L lines, read_file_content with a line range returns as
\* body exactly the lines numbered start..end (1-based, inclusive), a missing
\* start being taken as 1 and a missing end as L.
C21_BodyIsLinesStartToEnd ==
  ( /\ unit_call = "read_file_content"
    /\ DiskKind(unit_arg.file_path) = "present"
    /\ IsLineNumberOrNone(unit_arg.start_line)
    /\ IsLineNumberOrNone(unit_arg.end_line)
    /\ (unit_arg.start_line # <<>> \/ unit_arg.end_line # <<>>) ) =>
    LET lines == [k \in 1..FileLineCount |-> unit_arg.file_path \o <<"#", ToString(k)>>]
        start == IF unit_arg.start_line # <<>> THEN unit_arg.start_line[1] ELSE 1
        end == IF unit_arg.end_line # <<>> THEN unit_arg.end_line[1] ELSE FileLineCount
    IN  AfterFirstLine(unit_ret) = JoinWith(LinesFromTo(lines, start, end), NL)

C21_Witness ==
  /\ unit_call = "read_file_content"
  /\ unit_arg = Fetch(<<"a.py">>, <<2>>, <<>>)
  /\ disk["a.py"] = "present"
  /\ AfterFirstLine(unit_ret) = <<"a.py", "#", "2", NL, "a.py", "#", "3">>

\* The first line of a text.
FirstLine(text) == SplitOn(text, NL)[1]

\* The number a line of a file carries as its last token.
LineNumberOf(line) == line[Len(line)]

\* C22: when a line range is given, the header names the effective range: its
\* start and end numbers are the 1-based numbers of the first and of the last
\* line the body holds, also when the requested end is past the last line of
\* the file or the requested start is not positive.
C22_HeaderNamesEffectiveRange ==
  ( /\ unit_call = "read_file_content"
    /\ DiskKind(unit_arg.file_path) = "present"
    /\ (unit_arg.start_line \notin {<<>>, <<0>>} \/ unit_arg.end_line \notin {<<>>, <<0>>})
    /\ AfterFirstLine(unit_ret) # <<>> ) =>
    LET body == SplitOn(AfterFirstLine(unit_ret), NL)
    IN  FirstLine(unit_ret) =
          <<"#", SP>> \o unit_arg.file_path
          \o <<SP, "lines", SP, LineNumberOf(body[1]), "-", LineNumberOf(body[Len(body)])>>

\* C23: for every Direct-path invocation whose model call succeeds, whatever
\* the reply text, the returned BugAnalysis has a non-empty root_cause and a
\* confidence that is one of HIGH, MEDIUM, LOW.
C23_DirectResultValid ==
  (InDirect /\ pc = "done" /\ call_outcome = "replied") =>
    /\ Len(result) = 1
    /\ result[1].root_cause # <<>>
    /\ result[1].confidence \in {<<"HIGH">>, <<"MEDIUM">>, <<"LOW">>}

\* The paths fetched so far in this invocation.
FetchedPaths == {fetches[k].file_path : k \in 1..Len(fetches)}

\* The turns of the conversation that deliver a file.
ContentTurns(msgs) ==
  {k \in 1..Len(msgs) : msgs[k].role = "user" /\ msgs[k].content[1] = "File content for"}

\* The read_file requests of a reply, as paths.
ReadPathsOf(text) ==
  {parse_tool_requests(text)[k].file_path :
     k \in {x \in 1..Len(parse_tool_requests(text)) :
              parse_tool_requests(text)[x].tool = <<"read_file">>}}

NewReads(reqs, requested) ==
  {k \in 1..Len(reqs) :
     /\ reqs[k].tool = <<"read_file">>
     /\ reqs[k].file_path \notin requested
     /\ \A j \in 1..(k - 1) :
          ~(reqs[j].tool = <<"read_file">> /\ reqs[j].file_path = reqs[k].file_path)}

\* The i-th smallest element of a set of positions.
NthOf(K, i) == CHOOSE k \in K : Cardinality({x \in K : x <= k}) = i

\* A step in which a reply of the ReAct loop arrives.
ReactReplied == InReact /\ pc = "react_call" /\ call_outcome' = "replied"

\* C25: in a ReAct iteration whose tool requests include a read_file request
\* for a path not yet in the set, each such new path is fetched once, in
\* request order; the conversation gains the assistant reply and then exactly
\* one file-content user turn per newly fetched path; paths already fetched
\* are skipped, and no forcing turn is appended.
C25_NewPathsFetchedInOrder ==
  [][LET reqs == parse_tool_requests(response_text')
         new == NewReads(reqs, requested_files)
         req(i) == reqs[NthOf(new, i)]
     IN  (ReactReplied /\ new # {}) =>
           /\ fetches' = fetches \o
                [i \in 1..Cardinality(new) |->
                   Fetch(req(i).file_path, req(i).start_line, req(i).end_line)]
           /\ messages' = messages \o <<Turn("assistant", response_text')>> \o
                [i \in 1..Cardinality(new) |->
                   Turn("user",
                        <<"File content for", SP>> \o req(i).file_path \o <<":", NL>>
                        \o read_file_content(req(i).file_path, req(i).start_line,
                                             req(i).end_line)
                        \o <<NL, NL, FinalInstruction>>)]
           /\ requested_files' =
                requested_files \cup {reqs[k].file_path : k \in new}
           /\ messages'[Len(messages')] # ForcingTurn]_vars

C25_Witness ==
  /\ InReact /\ pc = "react" /\ iteration = 2
  /\ response_text = ReplyReadAAndB
  /\ fetches = <<Fetch(<<"a.py">>, <<>>, <<>>), Fetch(<<"b.py">>, <<>>, <<>>)>>
  /\ Len(messages) = 5
  /\ messages[4].role = "assistant" /\ messages[5].role = "user"

\* C26: a tool request whose tool is not exactly read_file never leads to a
\* call of read_file_content and never adds to the set of requested files; a
\* batch of such requests only is not actionable: the assistant reply and a
\* single forcing turn are appended and one unit of the budget is used.
C26_OtherToolsNotFetched ==
  [][LET reqs == parse_tool_requests(response_text')
     IN  /\ ReactReplied =>
              /\ \A k \in (Len(fetches) + 1)..Len(fetches') :
                   fetches'[k].file_path \in ReadPathsOf(response_text')
              /\ requested_files' \ requested_files \subseteq ReadPathsOf(response_text')
         /\ ( /\ ReactReplied
              /\ reqs # <<>>
              /\ \A k \in 1..Len(reqs) : reqs[k].tool # <<"read_file">> ) =>
              /\ fetches' = fetches
              /\ requested_files' = requested_files
              /\ messages' = messages \o <<Turn("assistant", response_text'),
                                           Turn("user", <<ForcingInstruction>>)>>
              /\ iteration' = iteration + 1
              /\ pc' = "react"]_vars

C26_Witness ==
  /\ InReact /\ pc = "react" /\ iteration = 1
  /\ response_text = ReplyListDir
  /\ fetches = <<>> /\ requested_files = {}
  /\ Len(messages) = 3 /\ messages[3] = ForcingTurn

\* The turn delivers the failure text of a fetch of the path.
DeliversFailure(turn, file_path) ==
  /\ turn.role = "user"
  /\ SubSeq(turn.content, 1, 2 + Len(file_path)) = <<"File content for", SP>> \o file_path
  /\ \E i \in 1..Len(turn.content) :
       turn.content[i] \in {"Error reading file:", "File not found:"}

\* C27: in the ReAct path, when the fetch of a requested file fails, the
\* failure text is delivered to the model inside the file-content user turn,
\* the path is added to the set of requested files all the same, so that the
\* failed fetch is never repeated in this invocation, and the iteration counts
\* as having fetched a new file: no forcing turn is appended.
C27_FailedFetchDelivered ==
  /\ [][LET reqs == parse_tool_requests(response_text')
            new == NewReads(reqs, requested_files)
        IN  ReactReplied =>
              \A k \in new :
                DiskKind(reqs[k].file_path) # "present" =>
                  /\ \E t \in (Len(messages) + 2)..Len(messages') :
                       DeliversFailure(messages'[t], reqs[k].file_path)
                  /\ reqs[k].file_path \in requested_files'
                  /\ messages'[Len(messages')] # ForcingTurn]_vars
  /\ [](InReact =>
          \A i \in 1..Len(fetches), j \in 1..Len(fetches) :
            (DiskKind(fetches[i].file_path) # "present"
             /\ fetches[i].file_path = fetches[j].file_path) => i = j)

C27_Witness ==
  /\ InReact /\ pc = "react" /\ iteration = 2
  /\ disk["a.py"] = "absent"
  /\ fetches = <<Fetch(<<"a.py">>, <<>>, <<>>)>>
  /\ requested_files = {<<"a.py">>}
  /\ DeliversFailure(messages[3], <<"a.py">>)
  /\ messages[Len(messages)] = ForcingTurn

\* A ReAct invocation has ended on a reply without tool requests: the loop
\* test still held, and iteration + 1 iterations have been executed.
DoneByReply == InReact /\ pc = "done" /\ iteration < max_iterations

\* The iteration number a preview snippet carries.
SnippetNumber(snippet) ==
  CHOOSE n \in 1..(MaxIterations + 1) : snippet[3] = ToString(n)

IsSnippetOf(snippet, n) ==
  \E text \in Replies : snippet = IterationTrace(n, text)

\* C28 as stated: when a ReAct invocation ends with a result during its k-th
\* iteration, iterations whose model call failed included, the trace of the
\* returned record holds exactly k preview snippets, one per iteration in
\* order, in place of the trace the parser built from <thinking> spans.
C28_SnippetPerIteration ==
  DoneByReply =>
    LET trace == result[1].reasoning_trace
    IN  /\ Len(trace) = iteration + 1
        /\ \A i \in 1..Len(trace) : IsSnippetOf(trace[i], i)

\* C28, amended: the trace of the returned record holds one preview snippet
\* for every iteration whose model call returned a reply, and none for an
\* iteration whose call failed: the snippets carry their iteration numbers,
\* in increasing order, the last one is that of the final reply with number
\* k, and the trace the parser built from <thinking> spans is replaced.
C28_SnippetPerReply ==
  /\ [](DoneByReply =>
          LET trace == result[1].reasoning_trace
          IN  /\ trace = reasoning_trace
              /\ Len(trace) \in 1..(iteration + 1)
              /\ trace[Len(trace)] = IterationTrace(iteration + 1, response_text)
              /\ \A i \in 1..Len(trace) :
                   \E n \in i..(iteration + 1) : IsSnippetOf(trace[i], n)
              /\ \A i \in 1..Len(trace), j \in 1..Len(trace) :
                   i < j => SnippetNumber(trace[i]) < SnippetNumber(trace[j]))
  /\ [][InReact /\ pc = "react_call" =>
          \/ /\ call_outcome' = "replied"
             /\ reasoning_trace' =
                  Append(reasoning_trace, IterationTrace(iteration + 1, response_text'))
          \/ /\ call_outcome' = "failed"
             /\ reasoning_trace' = reasoning_trace]_vars

\* A call failed, a reply asked for a file, and a reply with a <thinking>
\* span ended the invocation in its third iteration: two snippets.
C28_Witness ==
  /\ DoneByReply /\ iteration = 2 /\ model_calls = 3
  /\ response_text = ReplyFinal
  /\ Len(result[1].reasoning_trace) = 2
  /\ SnippetNumber(result[1].reasoning_trace[1]) = 2
  /\ result[1].reasoning_trace[2] = IterationTrace(3, ReplyFinal)
  /\ extract_analysis(ReplyFinal).reasoning_trace # <<>>

IsPrefixOf(s, t) == Len(s) <= Len(t) /\ SubSeq(t, 1, Len(s)) = s

\* C29: the conversation of a ReAct invocation only grows: it starts as one
\* user turn holding the issue text, every step of the invocation leaves the
\* conversation it found as a prefix of the one it leaves, and so no turn is
\* ever changed or removed.
C29_ConversationAppendOnly ==
  /\ [][(~InReact /\ route' = <<"react">>) =>
          /\ Len(messages') = 1
          /\ messages'[1].role = "user"
          /\ messages'[1].content = <<ReactInstruction, NL, NL>> \o issue_description']_vars
  /\ [][(InReact /\ route' = <<"react">>) => IsPrefixOf(messages, messages')]_vars
  /\ [](InReact => /\ Len(messages) >= 1
                   /\ messages[1].role = "user"
                   /\ messages[1].content =
                        <<ReactInstruction, NL, NL>> \o issue_description)

\* Two replies were answered with turns, and all five turns are still there.
C29_Witness ==
  /\ InReact /\ iteration = 2 /\ Len(messages) = 5
  /\ issue_description = IssueNoPath
  /\ messages[2] = Turn("assistant", ReplyListDir)
  /\ messages[3] = ForcingTurn
  /\ messages[4] = Turn("assistant", ReplyReadA)
  /\ messages[5].role = "user"

\* The iterations of the loop begun so far: those completed, and the one in
\* progress or ended by a final reply.
IterationsStarted ==
  iteration + (IF pc = "react_call" \/ DoneByReply THEN 1 ELSE 0)

CallsInFlight == IF call_outcome = "pending" THEN 1 ELSE 0

\* C30: every iteration of the ReAct loop makes exactly one model call, and
\* no call is made before the previous one has returned or failed: the number
\* of model calls made so far equals the number of iterations started, and
\* at most one call is in flight.
C30_OneCallPerIteration ==
  /\ [](InReact => /\ model_calls = IterationsStarted
                   /\ CallsInFlight <= 1
                   /\ (call_outcome = "pending") = (pc = "react_call"))
  /\ [][(InReact /\ model_calls' # model_calls /\ route' = <<"react">>) =>
          /\ model_calls' = model_calls + 1
          /\ call_outcome # "pending"
          /\ call_outcome' = "pending"
          /\ iteration' = iteration]_vars

\* The third call of an invocation is in flight; the first failed, the second
\* was answered.
C30_Witness ==
  /\ InReact /\ pc = "react_call" /\ call_outcome = "pending"
  /\ model_calls = 3 /\ iteration = 2
  /\ Len(reasoning_trace) = 1 /\ Len(messages) >= 3

\* The lines of the window of marker m that start with the label.
LabelledLines(lines, m, label) ==
  {k \in WindowLines(lines, m) : StartsWith(Strip(lines[k]), label)}

\* The integer of the last line of the window of marker m that starts with
\* the label and has an integer value; <<>> when the window has no such line.
LastIntValue(lines, m, label) ==
  LET found == {k \in LabelledLines(lines, m, label) :
                  IsIntText(Strip(Tail(Strip(lines[k]))))}
  IN  IF found = {} THEN <<>>
      ELSE <<IntOfText(Strip(Tail(Strip(lines[CHOOSE k \in found :
                                                 \A x \in found : x <= k]))))>>

\* The markers that have a path: the last FILE: line of the window names one.
MarkersWithFile(lines) ==
  {m \in MarkerLines(lines) : WindowValue(lines, m, "FILE:") # <<>>}

\* C31: a START_LINE: or END_LINE: line whose value is no integer sets
\* nothing: every marker with a path still gives its request, with that path,
\* with each line field taken from the lines of the window that do hold an
\* integer, and with the field unset when no START_LINE: (END_LINE:) line of
\* the window holds one.  No request is dropped and the parse does not fail.
C31_BadLineNumberLeftUnset ==
  unit_call = "parse_tool_requests" =>
    LET lines == SplitOn(unit_arg, NL)
        ms == MarkersWithFile(lines)
    IN  /\ Len(unit_ret) = Cardinality(ms)
        /\ \A m \in ms :
             LET req == unit_ret[Cardinality({x \in ms : x <= m})]
             IN  /\ req.file_path = WindowValue(lines, m, "FILE:")
                 /\ req.start_line = LastIntValue(lines, m, "START_LINE:")
                 /\ req.end_line = LastIntValue(lines, m, "END_LINE:")
                 /\ (\A k \in LabelledLines(lines, m, "START_LINE:") :
                       ~IsIntText(Strip(Tail(Strip(lines[k]))))) => req.start_line = <<>>
                 /\ (\A k \in LabelledLines(lines, m, "END_LINE:") :
                       ~IsIntText(Strip(Tail(Strip(lines[k]))))) => req.end_line = <<>>

\* START_LINE: two is no integer: the request keeps its path and its end line.
C31_Witness ==
  /\ unit_call = "parse_tool_requests"
  /\ unit_arg = JoinWith(<<MarkerRead, FileA, StartBad, EndThree>>, NL)
  /\ unit_ret = <<ToolRequest(<<"read_file">>, <<"a.py">>, <<>>, <<3>>)>>

IsPositiveOrUnset(opt) == opt = <<>> \/ opt[1] > 0

\* C32: every request the parser gives has a start_line and an end_line that
\* are each unset or a positive integer: a zero or a negative value of the
\* reply does not become a line bound.
C32_LineNumbersPositive ==
  unit_call = "parse_tool_requests" =>
    \A k \in 1..Len(unit_ret) :
      /\ IsPositiveOrUnset(unit_ret[k].start_line)
      /\ IsPositiveOrUnset(unit_ret[k].end_line)

\* C33: the record of the Direct path has a reasoning_trace of exactly one
\* entry, "Direct analysis: " followed by the first 200 characters of the
\* reply and "...", whether the reply had an <analysis> span or the fallback
\* record was built, and whatever <thinking> spans the parser had found.
C33_DirectTraceOverwritten ==
  (InDirect /\ call_outcome = "replied") =>
    /\ pc = "done" /\ Len(result) = 1
    /\ Len(result[1].reasoning_trace) = 1
    /\ result[1].reasoning_trace[1] =
         <<"Direct analysis:", SP>> \o Prefix(response_text, 200) \o <<".", ".", ".">>
    /\ result[1] = [extract_analysis(response_text) EXCEPT
                      !.reasoning_trace = result[1].reasoning_trace]

\* A reply with a <thinking> span and no <analysis> span: the fallback record
\* carried the trace "look" and has lost it.
C33_Witness ==
  /\ InDirect /\ pc = "done" /\ call_outcome = "replied"
  /\ response_text = ReplyReadARange
  /\ SearchSpan(response_text, "<analysis>", "</analysis>") = <<>>
  /\ extract_analysis(response_text).reasoning_trace = <<<<"look">>>>
  /\ result[1].reasoning_trace # extract_analysis(response_text).reasoning_trace

Occurrences(s, x) == Cardinality({k \in 1..Len(s) : s[k] = x})

\* The fenced blocks of the prompt that hold the file named p.
BlocksOf(p) ==
  Cardinality({i \in 1..(Len(prompt) - 4) :
                 /\ prompt[i] = "~~~python" /\ prompt[i + 1] = NL
                 /\ prompt[i + 2] = "#" /\ prompt[i + 4] = p})

IsRepeated(body, label) == Cardinality(LabelLines(body, label)) > 1

\* C35 as stated: when a label is on more than one line of the <analysis>
\* span, the field has the value of the last such line.
C35_LastLabelWins ==
  (unit_call = "extract_analysis" /\ HasAnalysisSpan(unit_arg)) =>
    LET body == SearchSpan(unit_arg, "<analysis>", "</analysis>")[1]
    IN  /\ IsRepeated(body, "ROOT_CAUSE:") =>
             unit_ret.root_cause = LastValue(body, "ROOT_CAUSE:")
        /\ IsRepeated(body, "EXPLANATION:") =>
             unit_ret.explanation = LastValue(body, "EXPLANATION:")
        /\ IsRepeated(body, "CONFIDENCE:") =>
             unit_ret.confidence = LastValue(body, "CONFIDENCE:")

\* C35, amended: when a label is on more than one line of the first
\* <analysis> span, the last such line decides the field: confidence is its
\* value, also when empty; root_cause and explanation are its value when it
\* is not empty, and the default of the field when it is empty, whatever the
\* earlier lines held.
C35_LastLabelDecides ==
  (unit_call = "extract_analysis" /\ HasAnalysisSpan(unit_arg)) =>
    LET body == SearchSpan(unit_arg, "<analysis>", "</analysis>")[1]
    IN  /\ IsRepeated(body, "ROOT_CAUSE:") =>
             unit_ret.root_cause =
               IF LastValue(body, "ROOT_CAUSE:") = <<>>
               THEN <<"Analysis", SP, "completed">>
               ELSE LastValue(body, "ROOT_CAUSE:")
        /\ IsRepeated(body, "EXPLANATION:") =>
             unit_ret.explanation =
               IF LastValue(body, "EXPLANATION:") = <<>>
               THEN Prefix(unit_arg, 500) \o <<".", ".", ".">>
               ELSE LastValue(body, "EXPLANATION:")
        /\ IsRepeated(body, "CONFIDENCE:") =>
             unit_ret.confidence = LastValue(body, "CONFIDENCE:")

\* The span runs from the first <analysis> to the first </analysis>: the
\* three labels are there twice, with leak, cache and LOW first.
C35_Witness ==
  /\ unit_call = "extract_analysis"
  /\ unit_arg = JoinWith(<<OpenAnalysis, FieldLines, TaggedAll>>, NL)
  /\ IsRepeated(SearchSpan(unit_arg, "<analysis>", "</analysis>")[1], "ROOT_CAUSE:")
  /\ unit_ret.root_cause = <<"null", ":", "user">>
  /\ unit_ret.explanation = <<"no", SP, "check", ".">>
  /\ unit_ret.confidence = <<"HIGH">>

\* The model call of a ReAct iteration fails in this step.
ReactFailed == InReact /\ pc = "react_call" /\ call_outcome' = "failed"

\* C36: a ReAct iteration whose model call fails changes the iteration
\* counter and nothing else: the conversation and the set of requested files
\* are as they were before the iteration, no snippet joins the trace, no file
\* is fetched and no record is built.
C36_FailedCallFrame ==
  [][ReactFailed =>
       /\ iteration' = iteration + 1
       /\ pc' = "react"
       /\ <<messages, requested_files, reasoning_trace>>' =
            <<messages, requested_files, reasoning_trace>>
       /\ <<fetches, parses, result, outcome, model_calls>>' =
            <<fetches, parses, result, outcome, model_calls>>]_vars

\* The second call failed after a reply that asked for a.py: what the first
\* iteration left is all there is.
C36_Witness ==
  /\ InReact /\ pc = "react" /\ call_outcome = "failed" /\ iteration = 2
  /\ response_text = ReplyReadA
  /\ Len(messages) = 3 /\ requested_files = {<<"a.py">>}
  /\ reasoning_trace = <<IterationTrace(1, ReplyReadA)>>

\* The assistant turns of a conversation, by position.
AssistantPositions(conversation) ==
  {k \in 1..Len(conversation) : conversation[k].role = "assistant"}

\* C37: at every model call of a ReAct invocation the conversation begins and
\* ends with a user turn and holds no two assistant turns in a row.  A reply
\* with tool requests is appended as one assistant turn and a final reply is
\* not appended, so there are as many assistant turns as replies with tool
\* requests received, that is, as iterations with tool requests completed.
C37_TurnRoles ==
  /\ []((InReact /\ pc = "react_call") =>
          /\ messages[1].role = "user"
          /\ messages[Len(messages)].role = "user"
          /\ \A k \in 1..(Len(messages) - 1) :
               ~(messages[k].role = "assistant" /\ messages[k + 1].role = "assistant"))
  /\ [](InReact =>
          Cardinality(AssistantPositions(messages)) =
            Len(reasoning_trace) - (IF DoneByReply THEN 1 ELSE 0))
  /\ [][(InReact /\ route' = <<"react">>) =>
          IF ReactReplied /\ parse_tool_requests(response_text') # <<>>
          THEN /\ AssistantPositions(messages') = AssistantPositions(messages) \cup {Len(messages) + 1}
               /\ messages'[Len(messages) + 1].content = response_text'
               /\ iteration' = iteration + 1
          ELSE AssistantPositions(messages') = AssistantPositions(messages)]_vars

\* The third call of an invocation: two replies with tool requests are in the
\* conversation, each followed by a user turn.
C37_Witness ==
  /\ InReact /\ pc = "react_call" /\ iteration = 2
  /\ AssistantPositions(messages) = {2, 4} /\ Len(messages) = 5
  /\ messages[3] = ForcingTurn

\* The turn is the file-content turn of the path.
IsContentTurnFor(turn, file_path) ==
  /\ turn.role = "user"
  /\ Len(turn.content) >= Len(file_path) + 4
  /\ SubSeq(turn.content, 1, Len(file_path) + 4) =
       <<"File content for", SP>> \o file_path \o <<":", NL>>

\* C38: within a ReAct invocation the set of requested files only grows, and
\* in every state the conversation holds as many file-content turns as the
\* set has paths: exactly one for each path of the set, and none for a path
\* that is not in it.
C38_ContentTurnPerPath ==
  /\ [][(InReact /\ route' = <<"react">>) =>
          requested_files \subseteq requested_files']_vars
  /\ [](InReact =>
          /\ Cardinality(ContentTurns(messages)) = Cardinality(requested_files)
          /\ \A p \in requested_files :
               Cardinality({k \in 1..Len(messages) :
                              IsContentTurnFor(messages[k], p)}) = 1
          /\ \A k \in ContentTurns(messages) :
               \E p \in requested_files : IsContentTurnFor(messages[k], p))

\* Two files were delivered in the first iteration; the second asked for
\* a.py again and got the forcing turn.
C38_Witness ==
  /\ InReact /\ pc = "react" /\ iteration = 2
  /\ requested_files = {<<"a.py">>, <<"b.py">>}
  /\ ContentTurns(messages) = {3, 4}
  /\ Len(messages) = 6 /\ messages[6] = ForcingTurn

\* A ReAct invocation has ended because the loop test failed.
DoneByExhaustion == InReact /\ pc = "done" /\ ~(iteration < max_iterations)

\* C39: the record of a ReAct invocation that used up its budget has an empty
\* reasoning_trace, whatever snippets the iterations gathered, and is the same
\* record for every such invocation: the fallback record of the fixed text
\* "Analysis attempted but max iterations reached".
C39_ExhaustedRecordFixed ==
  DoneByExhaustion =>
    /\ Len(result) = 1
    /\ result[1].reasoning_trace = <<>>
    /\ result[1].root_cause = <<"Analysis", SP, "attempted", SP, "but", SP, "max", SP,
                                "iterations", SP, "reached">>
    /\ result[1].explanation = result[1].root_cause
    /\ result[1].file_changes = ("analysis.md" :> result[1].root_cause)
    /\ result[1].confidence = <<"MEDIUM">>

\* Three replies asked for files, one of them with a <thinking> span: three
\* snippets were gathered and none is in the record.
C39_Witness ==
  /\ DoneByExhaustion /\ iteration = 3
  /\ Len(reasoning_trace) = 3
  /\ reasoning_trace[1] = IterationTrace(1, ReplyReadARange)
  /\ result[1].reasoning_trace = <<>>

=============================================================================
